---- MODULE Spec2Model ----
(***************************************************************************)
(* A model of the Soundcheck data generator                                *)
(* (src/generator/generate_fake_data.py, class SoundcheckDataGenerator).   *)
(*                                                                         *)
(* Dates are day numbers; day d falls on weekday d % 7 with 0 = Monday, as *)
(* datetime.weekday() counts.  Identifiers are the integers the code       *)
(* formats into 'EVT_00001', 'ART_0001', ...; Null stands for None.        *)
(* Ratios are kept exact: a capacity fill is in permille, a rating score   *)
(* in hundredths of a point.                                               *)
(***************************************************************************)
EXTENDS Integers, Sequences, FiniteSets, TLC

VARIABLES
    pc,                 \* position in generate_all_data / generate_events
    today,              \* datetime.now().date() of the run
    args,               \* the n= arguments of the generate_* calls
    artists,            \* self.artists
    venues,             \* self.venues
    users,              \* self.users
    tours,              \* self.tours
    events,             \* self.events
    event_ratings,      \* self.event_ratings
    venue_event_counts, \* self.venue_event_counts
    event_id_counter,   \* generate_events: event_id_counter
    start_date,         \* generate_events: start_date
    end_date,           \* generate_events: end_date
    artist_calendar,    \* generate_events: artist_calendar
    tour_idx,           \* generate_events: position of `for tour in self.tours`
    tour_event_count,   \* generate_events: tour_event_count
    current_date,       \* generate_events: current_date
    rng,                \* state of the random module
    user_rating_counts, \* self.user_rating_counts
    rating_id_counter,  \* generate_event_ratings: rating_id_counter
    completed_events,   \* generate_event_ratings: completed_events
    rating_event_idx,   \* generate_event_ratings: position in completed_events
    num_ratings,        \* generate_event_ratings: num_ratings
    base_score,         \* generate_event_ratings: base_score
    ratings_made,       \* generate_event_ratings: iterations of range(num_ratings) done
    duplicates_to_add,  \* _add_duplicate_ratings: duplicates_to_add
    dup_idx,            \* _add_duplicate_ratings: position in duplicates_to_add
    attacked_events,    \* _add_bot_attacks: attacked_events
    attack_idx,         \* _add_bot_attacks: position in attacked_events
    bot_ratings_added,  \* _add_bot_attacks: bot_ratings_added
    rating_id_start,    \* _add_bot_attacks: rating_id_start
    attack_hour,        \* _add_bot_attacks: hour of attack_timestamp
    num_bot_ratings,    \* _add_bot_attacks: num_bot_ratings
    bot_i,              \* _add_bot_attacks: i of range(num_bot_ratings)
    ticket_sales,       \* self.ticket_sales
    sale_id_counter,    \* generate_ticket_sales: sale_id_counter
    sales_events,       \* generate_ticket_sales: completed_events
    sales_event_idx,    \* generate_ticket_sales: position in completed_events
    num_sales,          \* generate_ticket_sales: num_sales
    sales_made,         \* generate_ticket_sales: iterations of range(num_sales) done
    cities,             \* self.cities
    venue_reviews,      \* self.venue_reviews
    artist_ratings,     \* self.artist_ratings
    user_follows,       \* self.user_follows
    csv_files,          \* the files save_all_to_csv has written
    errors,             \* validate_data_relationships: errors
    validation          \* what validate_data_relationships has returned

\* What the generators before the rating generator have left.
generatedVars == <<today, args, artists, venues, users, tours, events,
                   venue_event_counts, event_id_counter, start_date, end_date,
                   artist_calendar, tour_idx, tour_event_count, current_date>>

\* The state of the rating generator.
ratingVars == <<rng, user_rating_counts, rating_id_counter, completed_events,
                rating_event_idx, num_ratings, base_score, ratings_made,
                duplicates_to_add, dup_idx, attacked_events, attack_idx,
                bot_ratings_added, rating_id_start, attack_hour,
                num_bot_ratings, bot_i>>

\* The state of the ticket sales generator.
salesVars == <<ticket_sales, sale_id_counter, sales_events, sales_event_idx,
               num_sales, sales_made>>

\* The tables of the other generators, the exported files and the outcome
\* of the validation.
otherTables == <<cities, venue_reviews, artist_ratings, user_follows,
                 csv_files, errors, validation>>

vars == <<pc, today, args, artists, venues, users, tours, events, event_ratings,
          venue_event_counts, event_id_counter, start_date, end_date,
          artist_calendar, tour_idx, tour_event_count, current_date,
          rng, user_rating_counts, rating_id_counter, completed_events,
          rating_event_idx, num_ratings, base_score, ratings_made,
          duplicates_to_add, dup_idx, attacked_events, attack_idx,
          bot_ratings_added, rating_id_start, attack_hour,
          num_bot_ratings, bot_i,
          ticket_sales, sale_id_counter, sales_events, sales_event_idx,
          num_sales, sales_made,
          cities, venue_reviews, artist_ratings, user_follows, csv_files,
          errors, validation>>

(***************************************************************************)
(* Bounds of the model.                                                    *)
(***************************************************************************)
\* Largest n passed to generate_events (10000 in generate_all_data).
MaxEvents == 2
\* Days the event window reaches back from now (365 * 2 in the code).
DaysBack == 0
\* Days the event window reaches forward from now (365 in the code).
DaysFwd == 0
\* Largest number_of_shows drawn for a tour (tier ranges 5..75 in the code).
MaxShows == 2
\* Shortest and longest tour in days (60 and 120 in the code).
MinTourDays == 3
MaxTourDays == 4

\* None
Null == -1

Range(s) == {s[i] : i \in DOMAIN s}

Min(a, b) == IF a <= b THEN a ELSE b

\* datetime.weekday(): Monday is 0, Sunday is 6.
Weekday(d) == d % 7

(***************************************************************************)
(* Sample data the random draws of the generators are taken from.          *)
(***************************************************************************)
\* Wall-clock date of a run: a Friday.
NowChoices == {18}

Tiers == {"megastar", "popular", "rising", "established", "emerging", "local"}

\* The tiers generate_artists draws in the model.
TierChoices == {"popular", "local"}

TouringTiers == {"megastar", "popular", "rising", "established"}

VenueTable == <<[venue_id |-> 1, venue_type |-> "club", capacity |-> 250],
                [venue_id |-> 2, venue_type |-> "arena", capacity |-> 5000],
                [venue_id |-> 3, venue_type |-> "amphitheater", capacity |-> 2000]>>

\* Tour start dates drawn by generate_tours.
TourStartChoices == {15, 18}

CancellationReasons == {"illness", "weather", "low ticket sales",
                        "production issues", "scheduling conflict"}

\* random.randint(2, 4): days between two shows of a tour.
TourGaps == 2..4


\* cancellation_reason of an event that was not cancelled (None).
NoReason == "None"

ArtistIds == {artists[i].artist_id : i \in DOMAIN artists}

\* next(a for a in self.artists if a['artist_id'] == artist_id)
ArtistById(artist_id) == CHOOSE a \in Range(artists) : a.artist_id = artist_id

\* venues_dict[venue_id]
VenueById(venue_id) == CHOOSE v \in Range(venues) : v.venue_id = venue_id

(***************************************************************************)
(* generate_artists, generate_venues, generate_tours                       *)
(***************************************************************************)
\* generate_artists(n): ids ART_0001.. in order, one drawn tier each.
ArtistTables(n) ==
    {[i \in 1..n |-> [artist_id |-> i, popularity_tier |-> t[i]]] :
        t \in [1..n -> TierChoices]}

\* generate_venues(n): ids VEN_0001.. in order.
VenueList(n) == SubSeq(VenueTable, 1, Min(n, Len(VenueTable)))

\* Mutant of TouringArtists: every artist can go on tour.
TouringArtists_Everyone == artists

\* touring_artists of generate_tours
TouringArtists == SelectSeq(artists, LAMBDA a : a.popularity_tier \in TouringTiers)

\* Mutant of TourArtist: every tour is given to the first touring artist.
TourArtist_First(i) == TouringArtists[1]

\* touring_artists[i % len(touring_artists)], i being 0-based in the code.
TourArtist(i) == TouringArtists[((i - 1) % Len(TouringArtists)) + 1]

\* The tour generate_tours builds in iteration i (0-based in the code).
TourRecords(i) ==
    LET artist == TourArtist(i)
    IN {[tour_id |-> i, artist_id |-> artist.artist_id, start_date |-> s,
         end_date |-> s + len, number_of_shows |-> k] :
            s \in TourStartChoices, len \in {MinTourDays, MaxTourDays},
            k \in 1..MaxShows}

\* All tours lists generate_tours(n) can leave in self.tours.
TourLists(n) ==
    LET m == Min(n, Len(TouringArtists))
    IN {t \in [1..m -> UNION {TourRecords(i) : i \in 1..m}] :
            \A i \in 1..m : t[i] \in TourRecords(i)}

(***************************************************************************)
(* The random module as a seeded stream.  The events part branches on the  *)
(* draws of an event; a rating run makes thousands of draws, so there the  *)
(* draws of the rows come from this stream: rng is the state of the        *)
(* generator and every seed of Seeds is a run.                             *)
(***************************************************************************)
\* Largest seed of a rating run.
MaxSeed == 1

Seeds == 0..MaxSeed

Max(a, b) == IF a >= b THEN a ELSE b

\* One step of the generator.
NextRng(r) == (r * 75 + 74) % 65537

\* The state of the generator k draws after state r.
RECURSIVE Draw(_, _)
Draw(r, k) == IF k = 0 THEN r ELSE Draw(NextRng(r), k - 1)

\* random.random(), in percent: random.random() < 0.3 is Uniform(r) < 30.
Uniform(r) == r % 100

\* random.randint(lo, hi)
RandInt(r, lo, hi) == lo + (r % (hi - lo + 1))

\* random.choice(pool)
Pick(pool, r) == pool[(r % Len(pool)) + 1]

\* random.gauss(0, sigma), in hundredths: one of the thirteen points
\* -3 sigma, -2.5 sigma, ..., 3 sigma.
Gauss(r, sigma) == (sigma * ((r % 13) - 6)) \div 2

RECURSIVE RemoveAt(_, _)
RemoveAt(s, i) ==
    IF i = 1 THEN Tail(s) ELSE <<Head(s)>> \o RemoveAt(Tail(s), i - 1)

\* random.sample(population, k): k picks, each from what the earlier picks
\* left of the population.
RECURSIVE Sample(_, _, _)
Sample(population, k, r) ==
    IF k = 0 THEN <<>>
    ELSE LET i == (NextRng(r) % Len(population)) + 1
         IN <<population[i]>>
                \o Sample(RemoveAt(population, i), k - 1, NextRng(r))

(***************************************************************************)
(* _create_event                                                           *)
(***************************************************************************)
\* random.uniform(lo, hi) of the tier's capacity_fill range, in permille:
\* the two endpoints of the range.
FillDraws(tier) ==
    IF tier = "megastar" THEN {850, 1000}
    ELSE IF tier = "popular" THEN {700, 950}
    ELSE {400, 850}

\* Mutant of CapacityFill: the boost without the cap at 1.0.
CapacityFill_Uncapped(fill, event_date) ==
    IF Weekday(event_date) = 3 THEN (fill * 11) \div 10 ELSE fill

\* capacity_fill after the Thursday boost: min(1.0, capacity_fill * 1.1).
CapacityFill(fill, event_date) ==
    IF Weekday(event_date) = 3 THEN Min(1000, (fill * 11) \div 10) ELSE fill

\* int(venue['capacity'] * capacity_fill)
EstimatedAttendance(capacity, fill) == (capacity * fill) \div 1000

\* Mutant of EventIsPast: today counts as past.
EventIsPast_Inclusive(event_date, now) == event_date <= now

\* event_date.date() < datetime.now().date()
EventIsPast(event_date, now) == event_date < now

\* (event_status, cancellation_reason) pairs _create_event can draw.
StatusDraws(event_date, now) ==
    IF EventIsPast(event_date, now)
    THEN {<<"cancelled", r>> : r \in CancellationReasons}
            \cup {<<"completed", NoReason>>}
    ELSE {<<"scheduled", NoReason>>}

\* estimated_attendance values _create_event can compute.
AttendanceDraws(status, tier, capacity, event_date) ==
    IF status = "completed"
    THEN {EstimatedAttendance(capacity, CapacityFill(f, event_date)) :
            f \in FillDraws(tier)}
    ELSE {Null}

\* The lower ends of the base_prices ranges of _create_event, in cents.
BasePriceLow(tier) ==
    CASE tier = "megastar" -> 7500
      [] tier = "popular" -> 5000
      [] tier = "rising" -> 3500
      [] tier = "established" -> 2500
      [] tier = "emerging" -> 1500
      [] OTHER -> 1000

\* base_price of _create_event at the lower end of the tier's range, in
\* cents: the venue type and the weekend premium scale it.
BaseTicketPrice(artist, venue, event_date) ==
    LET by_tier == BasePriceLow(artist.popularity_tier)
        by_venue == CASE venue.venue_type = "stadium" -> (by_tier * 15) \div 10
                      [] venue.venue_type = "arena" -> (by_tier * 13) \div 10
                      [] venue.venue_type = "club" -> (by_tier * 8) \div 10
                      [] OTHER -> by_tier
    IN IF Weekday(event_date) \in {4, 5} THEN (by_venue * 12) \div 10
       ELSE by_venue

\* announce_days of _create_event: randint(90, 180) for the two top tiers,
\* randint(30, 90) for the others.
AnnounceDays(tier, r) ==
    IF tier \in {"megastar", "popular"} THEN RandInt(r, 90, 180)
    ELSE RandInt(r, 30, 90)

\* on_sale_date of _create_event: announced_date plus one to seven days.
OnSaleDate(event_date, tier, r1, r2) ==
    (event_date - AnnounceDays(tier, r1)) + RandInt(r2, 1, 7)

\* The ticketing columns _create_event gives an event, drawn from the
\* generator in state r; vip_ticket_price is None for 30% of the events.
Ticketing(artist, venue, event_date, r) ==
    LET base_price == BaseTicketPrice(artist, venue, event_date)
    IN [on_sale_date |-> OnSaleDate(event_date, artist.popularity_tier,
                                    Draw(r, 1), Draw(r, 2)),
        base_ticket_price |-> base_price,
        vip_ticket_price |-> IF Uniform(Draw(r, 3)) < 70
                             THEN (base_price * 5) \div 2 ELSE Null]

\* The records _create_event can return.  The event branches on the draws
\* of its status and attendance; its ticketing columns take the draws of
\* the generator state numbered event_id.
CreateEvent(event_id, artist_id, venue, event_date, tour_id) ==
    LET artist == ArtistById(artist_id)
    IN UNION {
        {[event_id |-> event_id, artist_id |-> artist_id,
          venue_id |-> venue.venue_id, tour_id |-> tour_id,
          event_date |-> event_date, event_status |-> s[1],
          cancellation_reason |-> s[2], estimated_attendance |-> att]
            @@ Ticketing(artist, venue, event_date, event_id) :
            att \in AttendanceDraws(s[1], artist.popularity_tier,
                                    venue.capacity, event_date)} :
        s \in StatusDraws(event_date, today)}

(***************************************************************************)
(* _generate_event_date                                                    *)
(***************************************************************************)
\* The dates _generate_event_date(start_date, end_date) can return: a day
\* of the range moved forward to the drawn target weekday.
GenerateEventDate(start, end) ==
    {p + ((t + 7 - Weekday(p)) % 7) : p \in start..end, t \in 0..6}

(***************************************************************************)
(* generate_events                                                         *)
(***************************************************************************)
\* Mutant of IsBooked: the availability check is dropped.
IsBooked_NoCheck(calendar, artist_id, d) == FALSE

\* current_date.date() in artist_calendar[artist_id]
IsBooked(calendar, artist_id, d) == d \in calendar[artist_id]

\* Mutant of NextCounter: the increment sits outside the availability branch.
NextCounter_Always(counter, appended) == counter + 1

\* event_id_counter after one loop iteration: incremented only inside the
\* availability branch, after the append.
NextCounter(counter, appended) == IF appended THEN counter + 1 ELSE counter

\* Mutant of TourLoopCondition: the event-count target is not tested.
TourLoopCondition_NoTarget(tour) ==
    /\ tour_event_count < tour.number_of_shows
    /\ current_date <= tour.end_date

\* while tour_event_count < number_of_shows and current_date <= tour_end
\*       and event_id_counter <= n
TourLoopCondition(tour) ==
    /\ tour_event_count < tour.number_of_shows
    /\ current_date <= tour.end_date
    /\ event_id_counter <= args.n_events

\* Mutant of TourStepDate: the date is advanced before the first show too.
TourStepDate_Always(cur, count, gap) == cur + gap

\* current_date of a tour-loop iteration: advanced before every show but
\* the first.
TourStepDate(cur, count, gap) == IF count > 0 THEN cur + gap ELSE cur

\* Mutant of AppendEvent: the venue's counter is not incremented.
AppendEvent_NoCount(event) ==
    /\ events' = Append(events, event)
    /\ artist_calendar' =
         [artist_calendar EXCEPT ![event.artist_id] = @ \cup {event.event_date}]
    /\ venue_event_counts' = venue_event_counts
    /\ event_id_counter' = NextCounter(event_id_counter, TRUE)

\* self.events.append(event) with its bookkeeping.
AppendEvent(event) ==
    /\ events' = Append(events, event)
    /\ artist_calendar' =
         [artist_calendar EXCEPT ![event.artist_id] = @ \cup {event.event_date}]
    /\ venue_event_counts' =
         [venue_event_counts EXCEPT ![event.venue_id] = @ + 1]
    /\ event_id_counter' = NextCounter(event_id_counter, TRUE)

\* The n= arguments of the calls modelled.
ArgChoices ==
    {[n_artists |-> 2, n_venues |-> 2, n_tours |-> 2, n_events |-> n] :
        n \in 1..MaxEvents}

\* The number of entries of CITIES_DATA.
NumCities == 15

\* self.cities after generate_cities: one city for every entry of
\* CITIES_DATA, CITY_001.. in order.
CityList == [i \in 1..NumCities |-> [city_id |-> i]]

\* The generators after generate_event_ratings, other than
\* generate_ticket_sales, have not been called and nothing is exported.
OthersNotStarted ==
    /\ venue_reviews = <<>>
    /\ artist_ratings = <<>>
    /\ user_follows = <<>>
    /\ csv_files = {}
    /\ errors = <<>>
    /\ validation = <<>>

\* generate_ticket_sales has not been called.
SalesNotStarted ==
    /\ ticket_sales = <<>>
    /\ sale_id_counter = Null
    /\ sales_events = <<>>
    /\ sales_event_idx = Null
    /\ num_sales = Null
    /\ sales_made = Null

\* The rating generator has not been called: its locals do not exist yet
\* and no user has been counted.
RatingsNotStarted ==
    /\ rng = 0
    /\ user_rating_counts = <<>>
    /\ rating_id_counter = Null
    /\ completed_events = <<>>
    /\ rating_event_idx = Null
    /\ num_ratings = Null
    /\ base_score = Null
    /\ ratings_made = Null
    /\ duplicates_to_add = <<>>
    /\ dup_idx = Null
    /\ attacked_events = <<>>
    /\ attack_idx = Null
    /\ bot_ratings_added = Null
    /\ rating_id_start = Null
    /\ attack_hour = Null
    /\ num_bot_ratings = Null
    /\ bot_i = Null

Init ==
    /\ pc = "generate_artists"
    /\ today \in NowChoices
    /\ args \in ArgChoices
    /\ artists = <<>>
    /\ venues = <<>>
    /\ users = <<>>
    /\ tours = <<>>
    /\ events = <<>>
    /\ event_ratings = <<>>
    /\ venue_event_counts = <<>>
    /\ event_id_counter = Null
    /\ start_date = Null
    /\ end_date = Null
    /\ artist_calendar = <<>>
    /\ tour_idx = Null
    /\ tour_event_count = Null
    /\ current_date = Null
    /\ RatingsNotStarted
    /\ SalesNotStarted
    /\ cities = CityList
    /\ OthersNotStarted

GenerateArtists ==
    /\ pc = "generate_artists"
    /\ artists' \in ArtistTables(args.n_artists)
    /\ pc' = "generate_venues"
    /\ UNCHANGED ratingVars
    /\ UNCHANGED <<today, args, venues, users, tours, events, event_ratings,
                   venue_event_counts, event_id_counter, start_date, end_date,
                   artist_calendar, tour_idx, tour_event_count, current_date>>
    /\ UNCHANGED salesVars
    /\ UNCHANGED otherTables

GenerateVenues ==
    /\ pc = "generate_venues"
    /\ venues' = VenueList(args.n_venues)
    /\ venue_event_counts' = [v \in {venues'[i].venue_id : i \in DOMAIN venues'} |-> 0]
    /\ pc' = "generate_tours"
    /\ UNCHANGED ratingVars
    /\ UNCHANGED <<today, args, artists, users, tours, events, event_ratings,
                   event_id_counter, start_date, end_date,
                   artist_calendar, tour_idx, tour_event_count, current_date>>
    /\ UNCHANGED salesVars
    /\ UNCHANGED otherTables

GenerateTours ==
    /\ pc = "generate_tours"
    /\ tours' \in TourLists(args.n_tours)
    /\ pc' = "generate_events"
    /\ UNCHANGED ratingVars
    /\ UNCHANGED <<today, args, artists, venues, users, events, event_ratings,
                   venue_event_counts, event_id_counter, start_date, end_date,
                   artist_calendar, tour_idx, tour_event_count, current_date>>
    /\ UNCHANGED salesVars
    /\ UNCHANGED otherTables

\* generate_events up to its first loop.
EventsBegin ==
    /\ pc = "generate_events"
    /\ event_id_counter' = 1
    /\ start_date' = today - DaysBack
    /\ end_date' = today + DaysFwd
    /\ artist_calendar' = [a \in ArtistIds |-> {}]
    /\ tour_idx' = 1
    /\ pc' = "tour_for"
    /\ UNCHANGED ratingVars
    /\ UNCHANGED <<today, args, artists, venues, users, tours, events,
                   event_ratings, venue_event_counts, tour_event_count,
                   current_date>>
    /\ UNCHANGED salesVars
    /\ UNCHANGED otherTables

\* for tour in self.tours: the next tour, if any.
TourBegin ==
    /\ pc = "tour_for"
    /\ tour_idx <= Len(tours)
    /\ tour_event_count' = 0
    /\ current_date' = tours[tour_idx].start_date
    /\ pc' = "tour_while"
    /\ UNCHANGED ratingVars
    /\ UNCHANGED <<today, args, artists, venues, users, tours, events,
                   event_ratings, venue_event_counts, event_id_counter,
                   start_date, end_date, artist_calendar, tour_idx>>
    /\ UNCHANGED salesVars
    /\ UNCHANGED otherTables

\* One iteration of the while loop of a tour.
TourShow ==
    /\ pc = "tour_while"
    /\ TourLoopCondition(tours[tour_idx])
    /\ \E gap \in TourGaps :
        LET tour == tours[tour_idx]
            d == TourStepDate(current_date, tour_event_count, gap)
        IN /\ current_date' = d
           /\ IF ~IsBooked(artist_calendar, tour.artist_id, d)
              THEN /\ \E venue \in Range(venues) :
                        \E event \in CreateEvent(event_id_counter, tour.artist_id,
                                                 venue, d, tour.tour_id) :
                            AppendEvent(event)
                   /\ tour_event_count' = tour_event_count + 1
              ELSE /\ event_id_counter' = NextCounter(event_id_counter, FALSE)
                   /\ UNCHANGED <<events, artist_calendar, venue_event_counts,
                                  tour_event_count>>
    /\ UNCHANGED ratingVars
    /\ UNCHANGED <<pc, today, args, artists, venues, users, tours,
                   event_ratings, start_date, end_date, tour_idx>>
    /\ UNCHANGED salesVars
    /\ UNCHANGED otherTables

\* The while loop of a tour ends.
TourExit ==
    /\ pc = "tour_while"
    /\ ~TourLoopCondition(tours[tour_idx])
    /\ tour_idx' = tour_idx + 1
    /\ pc' = "tour_for"
    /\ UNCHANGED ratingVars
    /\ UNCHANGED <<today, args, artists, venues, users, tours, events,
                   event_ratings, venue_event_counts, event_id_counter,
                   start_date, end_date, artist_calendar, tour_event_count,
                   current_date>>
    /\ UNCHANGED salesVars
    /\ UNCHANGED otherTables

\* The for loop over the tours ends.
ToursEnd ==
    /\ pc = "tour_for"
    /\ tour_idx > Len(tours)
    /\ pc' = "fill_while"
    /\ UNCHANGED ratingVars
    /\ UNCHANGED <<today, args, artists, venues, users, tours, events,
                   event_ratings, venue_event_counts, event_id_counter,
                   start_date, end_date, artist_calendar, tour_idx,
                   tour_event_count, current_date>>
    /\ UNCHANGED salesVars
    /\ UNCHANGED otherTables

\* An iteration of the non-tour loop that draws an available (artist, date).
FillAccept ==
    /\ pc = "fill_while"
    /\ event_id_counter <= args.n_events
    /\ \E artist \in Range(artists), venue \in Range(venues),
          d \in GenerateEventDate(start_date, end_date) :
        /\ ~IsBooked(artist_calendar, artist.artist_id, d)
        /\ \E event \in CreateEvent(event_id_counter, artist.artist_id,
                                    venue, d, Null) :
                AppendEvent(event)
    /\ UNCHANGED ratingVars
    /\ UNCHANGED <<pc, today, args, artists, venues, users, tours,
                   event_ratings, start_date, end_date, tour_idx,
                   tour_event_count, current_date>>
    /\ UNCHANGED salesVars
    /\ UNCHANGED otherTables

\* An iteration of the non-tour loop that draws a booked (artist, date).
FillReject ==
    /\ pc = "fill_while"
    /\ event_id_counter <= args.n_events
    /\ \E artist \in Range(artists), venue \in Range(venues),
          d \in GenerateEventDate(start_date, end_date) :
        IsBooked(artist_calendar, artist.artist_id, d)
    /\ event_id_counter' = NextCounter(event_id_counter, FALSE)
    /\ UNCHANGED ratingVars
    /\ UNCHANGED <<pc, today, args, artists, venues, users, tours, events,
                   event_ratings, venue_event_counts, start_date, end_date,
                   artist_calendar, tour_idx, tour_event_count, current_date>>
    /\ UNCHANGED salesVars
    /\ UNCHANGED otherTables

\* The non-tour loop ends and generate_events returns.
FillExit ==
    /\ pc = "fill_while"
    /\ event_id_counter > args.n_events
    /\ pc' = "events_done"
    /\ UNCHANGED ratingVars
    /\ UNCHANGED <<today, args, artists, venues, users, tours, events,
                   event_ratings, venue_event_counts, event_id_counter,
                   start_date, end_date, artist_calendar, tour_idx,
                   tour_event_count, current_date>>
    /\ UNCHANGED salesVars
    /\ UNCHANGED otherTables

Next ==
    \/ GenerateArtists
    \/ GenerateVenues
    \/ GenerateTours
    \/ EventsBegin
    \/ TourBegin
    \/ TourShow
    \/ TourExit
    \/ ToursEnd
    \/ FillAccept
    \/ FillReject
    \/ FillExit

Spec == Init /\ [][Next]_vars

(***************************************************************************)
(* The non-tour loop under fair sampling.  SaturatingArgs asks one artist  *)
(* for one event more than the sampler has dates, so that the calendar     *)
(* fills up.                                                               *)
(***************************************************************************)
SaturatingArgs ==
    {[n_artists |-> 1, n_venues |-> 1, n_tours |-> 0,
      n_events |-> DaysBack + DaysFwd + 8]}

InitFair ==
    /\ pc = "generate_artists"
    /\ today \in NowChoices
    /\ args \in ArgChoices \cup SaturatingArgs
    /\ artists = <<>>
    /\ venues = <<>>
    /\ users = <<>>
    /\ tours = <<>>
    /\ events = <<>>
    /\ event_ratings = <<>>
    /\ venue_event_counts = <<>>
    /\ event_id_counter = Null
    /\ start_date = Null
    /\ end_date = Null
    /\ artist_calendar = <<>>
    /\ tour_idx = Null
    /\ tour_event_count = Null
    /\ current_date = Null
    /\ RatingsNotStarted
    /\ SalesNotStarted
    /\ cities = CityList
    /\ OthersNotStarted

\* Every draw of the sampler has positive probability, so an available
\* (artist, date) pair is drawn eventually; the loop test is always run.
FairSpec ==
    /\ InitFair
    /\ [][Next]_vars
    /\ WF_vars(FillAccept)
    /\ WF_vars(FillExit)

\* The tour loop is straight-line code: its test is run and, when the test
\* holds, its body is run.
TourSpec ==
    /\ Init
    /\ [][Next]_vars
    /\ WF_vars(TourShow)
    /\ WF_vars(TourExit)

(***************************************************************************)
(* generate_users                                                          *)
(***************************************************************************)
\* user_segment of the user generated at position i of n: the first
\* int(n * 0.1) are power users, the next int(n * 0.3) regular users.
UserSegment(i, n) ==
    IF i <= n \div 10 THEN "power_user"
    ELSE IF i <= n \div 10 + (3 * n) \div 10 THEN "regular"
    ELSE "casual"

\* A users list generate_users(n) can leave: ids USR_00001.. in order; the
\* drawn user_type is 'verified' for the odd positions.
UserList(n) ==
    [i \in 1..n |-> [user_id |-> i, user_segment |-> UserSegment(i, n),
                     user_type |-> IF i % 2 = 1 THEN "verified" ELSE "regular"]]

(***************************************************************************)
(* _calculate_base_rating_score, _generate_rating_score,                   *)
(* _generate_days_after_event, _generate_review_text                       *)
(***************************************************************************)
\* review_title, review_text and weather_condition None
NoText == "None"

\* The conditions _get_weather draws from, all seasons together.
WeatherChoices == <<"clear", "cold", "snow", "rain", "partly cloudy", "mild",
                    "hot", "thunderstorm", "cool">>

OutdoorVenueTypes == {"amphitheater", "festival_grounds"}

\* Day of week effect, in hundredths.
DayAdjustment(event_date) ==
    IF Weekday(event_date) = 3 THEN 30
    ELSE IF Weekday(event_date) = 5 THEN -10
    ELSE 0

\* venue_adjustments.get(venue_type, 0), in hundredths.
VenueAdjustment(venue_type) ==
    CASE venue_type = "club" -> 20
      [] venue_type = "theater" -> 30
      [] venue_type = "bar" -> 10
      [] venue_type = "arena" -> -10
      [] venue_type = "stadium" -> -30
      [] venue_type = "amphitheater" -> 10
      [] venue_type = "festival_grounds" -> -10
      [] OTHER -> 0

\* weather_adjustments.get(weather_condition, 0), in hundredths; nothing is
\* added for an event without weather.
WeatherAdjustment(weather) ==
    CASE weather = "clear" -> 20
      [] weather = "mild" -> 10
      [] weather = "rain" -> -40
      [] weather = "snow" -> -50
      [] weather = "thunderstorm" -> -60
      [] weather = "hot" -> -20
      [] weather = "cold" -> -30
      [] OTHER -> 0

\* max(1.0, min(5.0, score)), in hundredths.
ClampScore(score) == Max(100, Min(500, score))

\* The event model carries neither weather_condition nor special_event,
\* which _create_event draws and only this function reads: they are drawn
\* where they are read.
BaseRatingScore(event, venue, weather, special, noise) ==
    ClampScore(400 + DayAdjustment(event.event_date)
                   + VenueAdjustment(venue.venue_type)
                   + WeatherAdjustment(weather)
                   + (IF special THEN 40 ELSE 0)
                   + noise)

\* round(x) of Python for x given in hundredths: to the nearest integer, a
\* tie to the even one.
RoundHalfEven(x) ==
    LET q == x \div 100
        rem == x % 100
    IN IF rem < 50 THEN q
       ELSE IF rem > 50 THEN q + 1
       ELSE IF q % 2 = 0 THEN q ELSE q + 1

\* Mutant of RoundToHalf: the score is left as computed.
RoundToHalf_Identity(score) == score

\* round(score * 2) / 2, in hundredths.
RoundToHalf(score) == RoundHalfEven(score * 2) * 50

\* _generate_rating_score(base_score, user, event); r is the state of the
\* generator its random.gauss is drawn in.
GenerateRatingScore(base, user, r) ==
    LET biased == IF user.user_segment = "power_user"
                  THEN base - 20 + Gauss(r, 30)
                  ELSE IF user.user_segment = "casual"
                  THEN base + 10 + Gauss(r, 50)
                  ELSE base + Gauss(r, 40)
        score == IF user.user_type = "verified" THEN biased - 10 ELSE biased
    IN ClampScore(RoundToHalf(score))

\* Mutant of GenerateDaysAfterEvent: the first tier is randint(0, 3), which
\* includes the day of the event.
GenerateDaysAfterEvent_FromZero(r1, r2) ==
    IF Uniform(r1) < 60 THEN RandInt(r2, 0, 3)
    ELSE IF Uniform(r1) < 90 THEN RandInt(r2, 4, 7)
    ELSE RandInt(r2, 8, 30)

\* _generate_days_after_event(); r1 and r2 are the states of its two draws.
GenerateDaysAfterEvent(r1, r2) ==
    IF Uniform(r1) < 60 THEN RandInt(r2, 1, 3)
    ELSE IF Uniform(r1) < 90 THEN RandInt(r2, 4, 7)
    ELSE RandInt(r2, 8, 30)

\* titles of _generate_review_text(rating_score)
ReviewTitles(score) ==
    IF score >= 450
    THEN <<"Amazing show!", "Best concert ever!", "Incredible performance!",
           "Mind-blowing!", "Unforgettable night!", "Absolutely phenomenal!">>
    ELSE IF score >= 350
    THEN <<"Great show", "Really enjoyed it", "Solid performance",
           "Good night out", "Worth seeing", "Entertaining show">>
    ELSE IF score >= 250
    THEN <<"Just okay", "Mixed feelings", "Could've been better",
           "Average show", "Some issues", "Meh">>
    ELSE <<"Disappointing", "Not worth it", "Poor experience",
           "Skip this one", "Waste of money", "Terrible">>

\* texts of _generate_review_text(rating_score), by their first sentence.
ReviewTexts(score) ==
    IF score >= 450
    THEN <<"The energy was electric from start to finish.",
           "Perfect setlist, amazing sound quality, and incredible stage presence.",
           "This is why live music matters.">>
    ELSE IF score >= 350
    THEN <<"Overall a good show with a few minor issues.",
           "Enjoyed the performance though the sound could have been better.",
           "Good energy from the band, crowd was into it.">>
    ELSE IF score >= 250
    THEN <<"The performance was okay but nothing special.",
           "Band seemed tired, setlist was predictable.",
           "Expected more based on their recordings.">>
    ELSE <<"Major sound problems, could barely hear the vocals.",
           "Venue was a disaster - oversold, no air conditioning, terrible acoustics.",
           "Band showed up late, played for 45 minutes, no encore.">>

(***************************************************************************)
(* generate_event_ratings                                                  *)
(***************************************************************************)
\* popularity_multipliers[tier], in tenths.
PopularityMultiplier(tier) ==
    CASE tier = "megastar" -> 100
      [] tier = "popular" -> 50
      [] tier = "rising" -> 30
      [] tier = "established" -> 20
      [] tier = "emerging" -> 15
      [] OTHER -> 10

\* Venue size factor, in tenths.
SizeFactor(capacity) ==
    IF capacity > 10000 THEN 20 ELSE IF capacity > 1000 THEN 15 ELSE 10

\* base_ratings of an event, in tenths of a rating: 10 times the two factors.
BaseRatings(artist, venue) ==
    (10 * PopularityMultiplier(artist.popularity_tier)
        * SizeFactor(venue.capacity)) \div 10

\* Mutant of NumRatingsDraws: the draw is taken without the floor of 1.
NumRatingsDraws_NoFloor(base) ==
    {(base * p) \div 1000 : p \in {-20, 70, 130}}

\* max(1, int(random.gauss(base_ratings, base_ratings * 0.3))): the draws
\* one sigma below and above the mean, and a negative one.
NumRatingsDraws(base) ==
    {Max(1, (base * p) \div 1000) : p \in {-20, 70, 130}}

\* Mutant of SelectUser: the index is drawn with randint(1, len(self.users))
\* and the user past the end of the list is one nobody generated.
SelectUser_PastEnd(r) ==
    LET i == RandInt(r, 1, Len(users)) + 1
    IN IF i <= Len(users) THEN users[i]
       ELSE [user_id |-> Len(users) + 1, user_segment |-> "casual",
             user_type |-> "regular"]

\* self.users[random.randint(0, len(self.users) - 1)]
SelectUser(r) == users[RandInt(r, 0, Len(users) - 1) + 1]

\* The row generate_event_ratings builds for event with the generator in
\* state r; the draws are taken in the states after r in the order of the
\* code.  The aspects column is not modelled.
RatingRow(rating_id, event, base, r) ==
    LET user == SelectUser(Draw(r, 1))
        rating_score == GenerateRatingScore(base, user, Draw(r, 2))
        anomaly == Uniform(Draw(r, 3)) < 2
        days_after == IF anomaly
                      THEN 0 - RandInt(Draw(r, 4), 1, 3)
                      ELSE GenerateDaysAfterEvent(Draw(r, 4), Draw(r, 5))
        has_review == Uniform(Draw(r, 6)) < 30
    IN [rating_id |-> rating_id,
        event_id |-> event.event_id,
        user_id |-> user.user_id,
        rating_score |-> rating_score,
        rating_date |-> event.event_date + days_after,
        days_after_event |-> days_after,
        review_title |-> IF has_review
                         THEN Pick(ReviewTitles(rating_score), Draw(r, 7))
                         ELSE NoText,
        review_text |-> IF has_review
                        THEN Pick(ReviewTexts(rating_score), Draw(r, 8))
                        ELSE NoText,
        verified_attendance |-> Uniform(Draw(r, 9)) < 70,
        helpful_count |-> IF has_review THEN RandInt(Draw(r, 10), 0, 20) ELSE 0,
        reported |-> Uniform(Draw(r, 11)) < 1]

\* generate_event_ratings up to its loop over the completed events.
RatingsBegin ==
    /\ pc = "events_done"
    /\ rating_id_counter' = 1
    /\ completed_events' =
            SelectSeq(events, LAMBDA e : e.event_status = "completed")
    /\ rating_event_idx' = 1
    /\ pc' = "ratings_for"
    /\ UNCHANGED <<generatedVars, event_ratings>>
    /\ UNCHANGED <<rng, user_rating_counts, num_ratings, base_score,
                   ratings_made, duplicates_to_add, dup_idx, attacked_events,
                   attack_idx, bot_ratings_added, rating_id_start,
                   attack_hour, num_bot_ratings, bot_i>>
    /\ UNCHANGED salesVars
    /\ UNCHANGED otherTables

\* for event in completed_events: the next event, up to its inner loop.
RatingsEvent ==
    /\ pc = "ratings_for"
    /\ rating_event_idx <= Len(completed_events)
    /\ LET event == completed_events[rating_event_idx]
           artist == ArtistById(event.artist_id)
           venue == VenueById(event.venue_id)
           weather == IF venue.venue_type \in OutdoorVenueTypes
                      THEN Pick(WeatherChoices, Draw(rng, 1))
                      ELSE NoText
           special == Uniform(Draw(rng, 2)) < 5
       IN /\ num_ratings' \in NumRatingsDraws(BaseRatings(artist, venue))
          /\ base_score' = BaseRatingScore(event, venue, weather, special,
                                           Gauss(Draw(rng, 3), 20))
    /\ rng' = Draw(rng, 3)
    /\ ratings_made' = 0
    /\ pc' = "ratings_row"
    /\ UNCHANGED <<generatedVars, event_ratings>>
    /\ UNCHANGED <<user_rating_counts, rating_id_counter, completed_events,
                   rating_event_idx, duplicates_to_add, dup_idx,
                   attacked_events, attack_idx, bot_ratings_added,
                   rating_id_start, attack_hour, num_bot_ratings, bot_i>>
    /\ UNCHANGED salesVars
    /\ UNCHANGED otherTables

\* One iteration of `for _ in range(num_ratings)`.
RatingsRow ==
    /\ pc = "ratings_row"
    /\ ratings_made < num_ratings
    /\ LET rating == RatingRow(rating_id_counter,
                               completed_events[rating_event_idx],
                               base_score, rng)
       IN /\ event_ratings' = Append(event_ratings, rating)
          /\ user_rating_counts' =
                [user_rating_counts EXCEPT ![rating.user_id] = @ + 1]
    /\ rating_id_counter' = rating_id_counter + 1
    /\ rng' = Draw(rng, 11)
    /\ ratings_made' = ratings_made + 1
    /\ UNCHANGED <<pc, generatedVars>>
    /\ UNCHANGED <<completed_events, rating_event_idx, num_ratings, base_score,
                   duplicates_to_add, dup_idx, attacked_events, attack_idx,
                   bot_ratings_added, rating_id_start, attack_hour,
                   num_bot_ratings, bot_i>>
    /\ UNCHANGED salesVars
    /\ UNCHANGED otherTables

\* The inner loop of an event ends.
RatingsEventEnd ==
    /\ pc = "ratings_row"
    /\ ratings_made >= num_ratings
    /\ rating_event_idx' = rating_event_idx + 1
    /\ pc' = "ratings_for"
    /\ UNCHANGED <<generatedVars, event_ratings>>
    /\ UNCHANGED <<rng, user_rating_counts, rating_id_counter, completed_events,
                   num_ratings, base_score, ratings_made, duplicates_to_add,
                   dup_idx, attacked_events, attack_idx, bot_ratings_added,
                   rating_id_start, attack_hour, num_bot_ratings, bot_i>>
    /\ UNCHANGED salesVars
    /\ UNCHANGED otherTables

(***************************************************************************)
(* _add_duplicate_ratings                                                  *)
(***************************************************************************)
\* Mutant of DuplicateCount: a tenth of the rows.
DuplicateCount_Tenth(len) == (len * 10) \div 100

\* int(len(self.event_ratings) * 0.15)
DuplicateCount(len) == (len * 15) \div 100

\* Mutant of DuplicateRatingId: the length of the table alone.
DuplicateRatingId_Length(len, n_duplicates) == len

\* The number in the rating_id of a duplicate:
\* len(self.event_ratings) + len(duplicates_to_add), the table having grown
\* by the duplicates appended before.
DuplicateRatingId(len, n_duplicates) == len + n_duplicates

\* The rating loop is over: _add_duplicate_ratings is called and draws its
\* sample.
DuplicatesBegin ==
    /\ pc = "ratings_for"
    /\ rating_event_idx > Len(completed_events)
    /\ LET num_duplicates == DuplicateCount(Len(event_ratings))
           k == Min(num_duplicates, Len(event_ratings))
       IN /\ duplicates_to_add' = Sample(event_ratings, k, rng)
          /\ rng' = Draw(rng, k)
    /\ dup_idx' = 1
    /\ pc' = "dup_for"
    /\ UNCHANGED <<generatedVars, event_ratings>>
    /\ UNCHANGED <<user_rating_counts, rating_id_counter, completed_events,
                   rating_event_idx, num_ratings, base_score, ratings_made,
                   attacked_events, attack_idx, bot_ratings_added,
                   rating_id_start, attack_hour, num_bot_ratings, bot_i>>
    /\ UNCHANGED salesVars
    /\ UNCHANGED otherTables

\* Mutant of DuplicateAppend: `new_dup = dup` without .copy(), so that the
\* new rating_id is written into the sampled row itself.
DuplicateAppend_NoCopy ==
    /\ pc = "dup_for"
    /\ dup_idx <= Len(duplicates_to_add)
    /\ LET dup == duplicates_to_add[dup_idx]
           at == CHOOSE i \in DOMAIN event_ratings : event_ratings[i] = dup
           new_dup == [dup EXCEPT !.rating_id =
                          DuplicateRatingId(Len(event_ratings),
                                            Len(duplicates_to_add))]
       IN event_ratings' =
            Append([event_ratings EXCEPT ![at] = new_dup], new_dup)
    /\ dup_idx' = dup_idx + 1
    /\ UNCHANGED <<pc, generatedVars>>
    /\ UNCHANGED <<rng, user_rating_counts, rating_id_counter, completed_events,
                   rating_event_idx, num_ratings, base_score, ratings_made,
                   duplicates_to_add, attacked_events, attack_idx,
                   bot_ratings_added, rating_id_start, attack_hour,
                   num_bot_ratings, bot_i>>
    /\ UNCHANGED salesVars
    /\ UNCHANGED otherTables

\* One iteration of `for dup in duplicates_to_add`.
DuplicateAppend ==
    /\ pc = "dup_for"
    /\ dup_idx <= Len(duplicates_to_add)
    /\ LET dup == duplicates_to_add[dup_idx]
           new_dup == [dup EXCEPT !.rating_id =
                          DuplicateRatingId(Len(event_ratings),
                                            Len(duplicates_to_add))]
       IN event_ratings' = Append(event_ratings, new_dup)
    /\ dup_idx' = dup_idx + 1
    /\ UNCHANGED <<pc, generatedVars>>
    /\ UNCHANGED <<rng, user_rating_counts, rating_id_counter, completed_events,
                   rating_event_idx, num_ratings, base_score, ratings_made,
                   duplicates_to_add, attacked_events, attack_idx,
                   bot_ratings_added, rating_id_start, attack_hour,
                   num_bot_ratings, bot_i>>
    /\ UNCHANGED salesVars
    /\ UNCHANGED otherTables

\* _add_duplicate_ratings returns.
DuplicatesEnd ==
    /\ pc = "dup_for"
    /\ dup_idx > Len(duplicates_to_add)
    /\ pc' = "add_bot_attacks"
    /\ UNCHANGED <<generatedVars, event_ratings>>
    /\ UNCHANGED ratingVars
    /\ UNCHANGED salesVars
    /\ UNCHANGED otherTables

(***************************************************************************)
(* _add_bot_attacks                                                        *)
(***************************************************************************)
\* random.randint(20, 50): the fewest and the most bot ratings of an attack.
MinBotRatings == 20
MaxBotRatings == 50

\* random.randint(9000, 9999): the bot user ids.
BotUserIdLow == 9000
BotUserIdHigh == 9999

\* Mutant of AttackCount: 1% of the completed events.
AttackCount_OfCompleted(n_events) ==
    Cardinality({i \in DOMAIN events :
                    events[i].event_status = "completed"}) \div 100

\* k of the sample: int(len(self.events) * 0.01)
AttackCount(n_events) == n_events \div 100

\* [e for e in self.events if e['event_status'] == 'completed']
CompletedEvents == SelectSeq(events, LAMBDA e : e.event_status = "completed")

\* The number in the rating_id of a bot rating:
\* rating_id_start + bot_ratings_added.
BotRatingId(start, added) == start + added

\* Mutant of AttackRatingDate: the attack starts on the day of the event.
AttackRatingDate_SameDay(event_date, hour, minute) ==
    event_date + (hour * 60 + minute) \div 1440

\* (attack_timestamp + timedelta(minutes=minute)).date(), attack_timestamp
\* being the event date plus one day and `hour` hours.
AttackRatingDate(event_date, hour, minute) ==
    event_date + 1 + (hour * 60 + minute) \div 1440

\* The row _add_bot_attacks builds for event with the generator in state r.
BotRow(rating_id, event, hour, r) ==
    LET minute == RandInt(Draw(r, 3), 0, 59)
    IN [rating_id |-> rating_id,
        event_id |-> event.event_id,
        user_id |-> RandInt(Draw(r, 1), BotUserIdLow, BotUserIdHigh),
        rating_score |-> IF Uniform(Draw(r, 2)) < 80 THEN 100 ELSE 500,
        rating_date |-> AttackRatingDate(event.event_date, hour, minute),
        days_after_event |-> 1,
        review_title |-> NoText,
        review_text |-> NoText,
        verified_attendance |-> FALSE,
        helpful_count |-> 0,
        reported |-> Uniform(Draw(r, 4)) < 30]

\* _add_bot_attacks up to its loop: the sample can be drawn.
BotAttacksBegin ==
    /\ pc = "add_bot_attacks"
    /\ AttackCount(Len(events)) <= Len(CompletedEvents)
    /\ attacked_events' = Sample(CompletedEvents, AttackCount(Len(events)), rng)
    /\ rng' = Draw(rng, AttackCount(Len(events)))
    /\ bot_ratings_added' = 0
    /\ rating_id_start' = Len(event_ratings) + 1
    /\ attack_idx' = 1
    /\ pc' = "bot_for"
    /\ UNCHANGED <<generatedVars, event_ratings>>
    /\ UNCHANGED <<user_rating_counts, rating_id_counter, completed_events,
                   rating_event_idx, num_ratings, base_score, ratings_made,
                   duplicates_to_add, dup_idx, attack_hour, num_bot_ratings,
                   bot_i>>
    /\ UNCHANGED salesVars
    /\ UNCHANGED otherTables

\* random.sample raises ValueError: the sample is larger than the list of
\* completed events.
BotAttacksError ==
    /\ pc = "add_bot_attacks"
    /\ AttackCount(Len(events)) > Len(CompletedEvents)
    /\ pc' = "ValueError"
    /\ UNCHANGED <<generatedVars, event_ratings>>
    /\ UNCHANGED ratingVars
    /\ UNCHANGED salesVars
    /\ UNCHANGED otherTables

\* for event in attacked_events: the next event, up to its inner loop.
BotAttack ==
    /\ pc = "bot_for"
    /\ attack_idx <= Len(attacked_events)
    /\ attack_hour' = RandInt(Draw(rng, 1), 0, 23)
    /\ num_bot_ratings' \in {MinBotRatings, MaxBotRatings}
    /\ rng' = Draw(rng, 1)
    /\ bot_i' = 0
    /\ pc' = "bot_row"
    /\ UNCHANGED <<generatedVars, event_ratings>>
    /\ UNCHANGED <<user_rating_counts, rating_id_counter, completed_events,
                   rating_event_idx, num_ratings, base_score, ratings_made,
                   duplicates_to_add, dup_idx, attacked_events, attack_idx,
                   bot_ratings_added, rating_id_start>>
    /\ UNCHANGED salesVars
    /\ UNCHANGED otherTables

\* One iteration of `for i in range(num_bot_ratings)`.
BotRating ==
    /\ pc = "bot_row"
    /\ bot_i < num_bot_ratings
    /\ event_ratings' =
            Append(event_ratings,
                   BotRow(BotRatingId(rating_id_start, bot_ratings_added),
                          attacked_events[attack_idx], attack_hour, rng))
    /\ bot_ratings_added' = bot_ratings_added + 1
    /\ rng' = Draw(rng, 4)
    /\ bot_i' = bot_i + 1
    /\ UNCHANGED <<pc, generatedVars>>
    /\ UNCHANGED <<user_rating_counts, rating_id_counter, completed_events,
                   rating_event_idx, num_ratings, base_score, ratings_made,
                   duplicates_to_add, dup_idx, attacked_events, attack_idx,
                   rating_id_start, attack_hour, num_bot_ratings>>
    /\ UNCHANGED salesVars
    /\ UNCHANGED otherTables

\* The inner loop of an attack ends.
BotAttackEnd ==
    /\ pc = "bot_row"
    /\ bot_i >= num_bot_ratings
    /\ attack_idx' = attack_idx + 1
    /\ pc' = "bot_for"
    /\ UNCHANGED <<generatedVars, event_ratings>>
    /\ UNCHANGED <<rng, user_rating_counts, rating_id_counter, completed_events,
                   rating_event_idx, num_ratings, base_score, ratings_made,
                   duplicates_to_add, dup_idx, attacked_events,
                   bot_ratings_added, rating_id_start, attack_hour,
                   num_bot_ratings, bot_i>>
    /\ UNCHANGED salesVars
    /\ UNCHANGED otherTables

\* _add_bot_attacks and with it generate_event_ratings return.
BotAttacksEnd ==
    /\ pc = "bot_for"
    /\ attack_idx > Len(attacked_events)
    /\ pc' = "ratings_done"
    /\ UNCHANGED <<generatedVars, event_ratings>>
    /\ UNCHANGED ratingVars
    /\ UNCHANGED salesVars
    /\ UNCHANGED otherTables

NextRatings ==
    \/ RatingsBegin
    \/ RatingsEvent
    \/ RatingsRow
    \/ RatingsEventEnd
    \/ DuplicatesBegin
    \/ DuplicateAppend
    \/ DuplicatesEnd
    \/ BotAttacksBegin
    \/ BotAttacksError
    \/ BotAttack
    \/ BotRating
    \/ BotAttackEnd
    \/ BotAttacksEnd

(***************************************************************************)
(* The rating generator, started in states generate_events returns in,     *)
(* with the event window of the code: 730 days back, 365 days ahead.       *)
(***************************************************************************)
\* The artists of the rating runs.
RatingArtists == <<[artist_id |-> 1, popularity_tier |-> "local"],
                   [artist_id |-> 2, popularity_tier |-> "emerging"]>>

\* (events, completed events, users) of the rating runs: a run without a
\* bot attack, runs with one attack, a run whose attack cannot be sampled,
\* a run with two attacks, a run with the 10000 users of
\* generate_all_data, and a run with ratings whose two attacks cannot be
\* sampled.
RatingRuns == {<<4, 2, 10>>, <<100, 1, 10>>, <<100, 2, 10>>, <<100, 0, 10>>,
               <<200, 3, 10>>, <<100, 1, 10000>>, <<200, 1, 10>>}

\* The event generate_events appended at position i of a run with
\* `completed` completed events: the first event is a cancelled one, the
\* completed ones follow day by day up to yesterday, the others are
\* scheduled from today on, every event on a day of its own.
RunEvent(i, completed) ==
    LET artist_id == ((i - 1) % Len(artists)) + 1
        venue == venues[((i - 1) % Len(venues)) + 1]
        event_date == today - completed - 2 + i
        status == IF event_date >= today THEN "scheduled"
                  ELSE IF i = 1 THEN "cancelled" ELSE "completed"
    IN CHOOSE e \in CreateEvent(i, artist_id, venue, event_date, Null) :
            /\ e.event_status = status
            /\ status = "cancelled" => e.cancellation_reason = "weather"
            /\ \A o \in CreateEvent(i, artist_id, venue, event_date, Null) :
                    o.event_status = status =>
                        e.estimated_attendance <= o.estimated_attendance

RunEvents(n, completed) == [i \in 1..n |-> RunEvent(i, completed)]

InitRatings ==
    /\ pc = "events_done"
    /\ today \in NowChoices
    /\ artists = RatingArtists
    /\ venues = VenueTable
    /\ tours = <<>>
    /\ \E run \in RatingRuns :
        /\ users = UserList(run[3])
        /\ events = RunEvents(run[1], run[2])
    /\ args = [n_artists |-> Len(artists), n_venues |-> Len(venues),
               n_tours |-> 0, n_events |-> Len(events)]
    /\ event_ratings = <<>>
    /\ venue_event_counts =
            [v \in {venues[i].venue_id : i \in DOMAIN venues} |->
                Cardinality({i \in DOMAIN events : events[i].venue_id = v})]
    /\ event_id_counter = Len(events) + 1
    /\ start_date = today - 730
    /\ end_date = today + 365
    /\ artist_calendar =
            [a \in ArtistIds |->
                {events[i].event_date : i \in {j \in DOMAIN events :
                                                events[j].artist_id = a}}]
    /\ tour_idx = 1
    /\ tour_event_count = Null
    /\ current_date = Null
    /\ rng \in Seeds
    /\ user_rating_counts = [u \in {users[i].user_id : i \in DOMAIN users} |-> 0]
    /\ rating_id_counter = Null
    /\ completed_events = <<>>
    /\ rating_event_idx = Null
    /\ num_ratings = Null
    /\ base_score = Null
    /\ ratings_made = Null
    /\ duplicates_to_add = <<>>
    /\ dup_idx = Null
    /\ attacked_events = <<>>
    /\ attack_idx = Null
    /\ bot_ratings_added = Null
    /\ rating_id_start = Null
    /\ attack_hour = Null
    /\ num_bot_ratings = Null
    /\ bot_i = Null
    /\ SalesNotStarted
    /\ cities = CityList
    /\ OthersNotStarted

RatingsSpec == InitRatings /\ [][NextRatings]_vars

(***************************************************************************)
(* generate_events as a seeded run: the non-tour loop with every draw      *)
(* taken from the stream, as a function of the seed and of the wall-clock  *)
(* date the run reads with datetime.now().                                 *)
(***************************************************************************)
\* Wall-clock dates of the seeded runs.
ReplayDates == {17, 18, 19}

\* target_dow of _generate_event_date: random.choices with day_weights,
\* u being the draw in percent.
TargetDow(u) ==
    IF u < 8 THEN 0
    ELSE IF u < 16 THEN 1
    ELSE IF u < 26 THEN 2
    ELSE IF u < 41 THEN 3
    ELSE IF u < 65 THEN 4
    ELSE IF u < 93 THEN 5
    ELSE 6

\* _generate_event_date(start_date, end_date) with its two draws made in
\* the generator states r1 and r2.
SeededEventDate(start, end, r1, r2) ==
    LET potential_date == start + RandInt(r1, 0, end - start)
    IN potential_date
        + ((TargetDow(Uniform(r2)) + 7 - Weekday(potential_date)) % 7)

\* opening_acts None: the column of an event without openers.
NoActs == <<>>

\* The venue types whose shows have opening acts.
OpenerVenueTypes == {"arena", "stadium", "amphitheater"}

\* Mutant of PotentialOpeners: every artist can open a show.
PotentialOpeners_AnyTier == artists

\* [a for a in self.artists if a['popularity_tier'] in ['emerging', 'local']]
PotentialOpeners ==
    SelectSeq(artists, LAMBDA a : a.popularity_tier \in {"emerging", "local"})

\* opening_acts of _create_event before it is written to the event, the
\* draws made in the generator states after r: randint(1, 2) openers,
\* fewer when fewer can open, sampled from the potential openers.  The
\* artist_id stands for the artist_name the code lists.
OpeningActs(venue, r) ==
    IF venue.venue_type \in OpenerVenueTypes
    THEN LET num_openers == RandInt(Draw(r, 1), 1, 2)
             k == IF num_openers <= Len(PotentialOpeners)
                  THEN num_openers ELSE Len(PotentialOpeners)
             picked == Sample(PotentialOpeners, k, Draw(r, 1))
         IN [i \in 1..k |-> picked[i].artist_id]
    ELSE <<>>

\* _create_event run at the wall-clock date now, its draws made in the
\* generator states after r.
SeededCreateEvent(event_id, artist, venue, event_date, tour_id, now, r) ==
    LET status == IF ~EventIsPast(event_date, now) THEN "scheduled"
                  ELSE IF Uniform(Draw(r, 1)) < 5 THEN "cancelled"
                  ELSE "completed"
        fills == FillDraws(artist.popularity_tier)
        fill == IF Draw(r, 3) % 2 = 0
                THEN CHOOSE f \in fills : \A g \in fills : f <= g
                ELSE CHOOSE f \in fills : \A g \in fills : f >= g
    IN [event_id |-> event_id,
        artist_id |-> artist.artist_id,
        venue_id |-> venue.venue_id,
        tour_id |-> tour_id,
        event_date |-> event_date,
        event_status |-> status,
        cancellation_reason |->
            IF status = "cancelled"
            THEN Pick(<<"illness", "weather", "low ticket sales",
                        "production issues", "scheduling conflict">>,
                      Draw(r, 2))
            ELSE NoReason,
        estimated_attendance |->
            IF status = "completed"
            THEN EstimatedAttendance(venue.capacity,
                                     CapacityFill(fill, event_date))
            ELSE Null,
        opening_acts |->
            IF OpeningActs(venue, Draw(r, 3)) = <<>> THEN NoActs
            ELSE OpeningActs(venue, Draw(r, 3))]

\* The locals of generate_events when its non-tour loop starts in a run
\* without tours, the generator in state r.
SeededStart(r) ==
    [events |-> <<>>,
     artist_calendar |-> [a \in ArtistIds |-> {}],
     venue_event_counts |-> [v \in {venues[i].venue_id : i \in DOMAIN venues} |-> 0],
     event_id_counter |-> 1,
     rng |-> r]

\* One iteration of the non-tour loop of a run at the wall-clock date now.
SeededFillIteration(st, now) ==
    LET artist == Pick(artists, Draw(st.rng, 1))
        venue == Pick(venues, Draw(st.rng, 2))
        event_date == SeededEventDate(now - DaysBack, now + DaysFwd,
                                      Draw(st.rng, 3), Draw(st.rng, 4))
    IN IF ~IsBooked(st.artist_calendar, artist.artist_id, event_date)
       THEN [events |-> Append(st.events,
                               SeededCreateEvent(st.event_id_counter, artist,
                                                 venue, event_date, Null, now,
                                                 Draw(st.rng, 4))),
             artist_calendar |->
                [st.artist_calendar EXCEPT ![artist.artist_id] =
                    @ \cup {event_date}],
             venue_event_counts |->
                [st.venue_event_counts EXCEPT ![venue.venue_id] = @ + 1],
             event_id_counter |-> NextCounter(st.event_id_counter, TRUE),
             rng |-> Draw(st.rng, 10)]
       ELSE [st EXCEPT !.event_id_counter = NextCounter(@, FALSE),
                       !.rng = Draw(st.rng, 4)]

\* The non-tour loop run from st to its end (at most `steps` iterations).
RECURSIVE SeededFillLoop(_, _, _, _)
SeededFillLoop(st, n, now, steps) ==
    IF st.event_id_counter > n \/ steps = 0 THEN st
    ELSE SeededFillLoop(SeededFillIteration(st, now), n, now, steps - 1)

\* self.events after generate_events(n) of the run with the given seed at
\* the wall-clock date now.
SeededEvents(seed, n, now) ==
    SeededFillLoop(SeededStart(seed), n, now, 64).events

\* An iteration of the non-tour loop of the seeded run.
SeededFill ==
    /\ pc = "fill_while"
    /\ event_id_counter <= args.n_events
    /\ LET st == SeededFillIteration(
                    [events |-> events, artist_calendar |-> artist_calendar,
                     venue_event_counts |-> venue_event_counts,
                     event_id_counter |-> event_id_counter, rng |-> rng],
                    today)
       IN /\ events' = st.events
          /\ artist_calendar' = st.artist_calendar
          /\ venue_event_counts' = st.venue_event_counts
          /\ event_id_counter' = st.event_id_counter
          /\ rng' = st.rng
    /\ UNCHANGED <<pc, today, args, artists, venues, users, tours,
                   event_ratings, start_date, end_date, tour_idx,
                   tour_event_count, current_date>>
    /\ UNCHANGED <<user_rating_counts, rating_id_counter, completed_events,
                   rating_event_idx, num_ratings, base_score, ratings_made,
                   duplicates_to_add, dup_idx, attacked_events, attack_idx,
                   bot_ratings_added, rating_id_start, attack_hour,
                   num_bot_ratings, bot_i>>
    /\ UNCHANGED salesVars
    /\ UNCHANGED otherTables

\* The seeded runs: the seed set at import, the date of the run and n.
InitSeeded ==
    /\ pc = "fill_while"
    /\ today \in ReplayDates
    /\ artists = RatingArtists
    /\ venues = VenueTable
    /\ users = UserList(10)
    /\ tours = <<>>
    /\ \E seed \in Seeds, n \in 1..8 :
        /\ args = [n_users |-> Len(users), n_artists |-> Len(artists),
                   n_venues |-> Len(venues), n_tours |-> 0, n_events |-> n,
                   seed |-> seed]
        /\ rng = seed
    /\ events = <<>>
    /\ event_ratings = <<>>
    /\ venue_event_counts = SeededStart(rng).venue_event_counts
    /\ event_id_counter = 1
    /\ start_date = today - DaysBack
    /\ end_date = today + DaysFwd
    /\ artist_calendar = SeededStart(rng).artist_calendar
    /\ tour_idx = 1
    /\ tour_event_count = Null
    /\ current_date = Null
    /\ user_rating_counts = [u \in {users[i].user_id : i \in DOMAIN users} |-> 0]
    /\ rating_id_counter = Null
    /\ completed_events = <<>>
    /\ rating_event_idx = Null
    /\ num_ratings = Null
    /\ base_score = Null
    /\ ratings_made = Null
    /\ duplicates_to_add = <<>>
    /\ dup_idx = Null
    /\ attacked_events = <<>>
    /\ attack_idx = Null
    /\ bot_ratings_added = Null
    /\ rating_id_start = Null
    /\ attack_hour = Null
    /\ num_bot_ratings = Null
    /\ bot_i = Null
    /\ SalesNotStarted
    /\ cities = CityList
    /\ OthersNotStarted

NextSeeded ==
    \/ SeededFill
    \/ FillExit

SeededSpec == InitSeeded /\ [][NextSeeded]_vars

(***************************************************************************)
(* The seeded non-tour loop on artist lists with two, one and no artist    *)
(* who can open a show.                                                    *)
(***************************************************************************)
\* Artist lists generate_artists can leave.
OpenerPools ==
    {RatingArtists,
     <<[artist_id |-> 1, popularity_tier |-> "popular"],
       [artist_id |-> 2, popularity_tier |-> "local"]>>,
     <<[artist_id |-> 1, popularity_tier |-> "popular"],
       [artist_id |-> 2, popularity_tier |-> "rising"]>>,
     <<[artist_id |-> 1, popularity_tier |-> "emerging"],
       [artist_id |-> 2, popularity_tier |-> "popular"],
       [artist_id |-> 3, popularity_tier |-> "local"]>>}

InitOpeners ==
    /\ pc = "fill_while"
    /\ today \in ReplayDates
    /\ artists \in OpenerPools
    /\ venues = VenueTable
    /\ users = UserList(10)
    /\ tours = <<>>
    /\ \E seed \in Seeds, n \in 1..8 :
        /\ args = [n_users |-> Len(users), n_artists |-> Len(artists),
                   n_venues |-> Len(venues), n_tours |-> 0, n_events |-> n,
                   seed |-> seed]
        /\ rng = seed
    /\ events = <<>>
    /\ event_ratings = <<>>
    /\ venue_event_counts = SeededStart(rng).venue_event_counts
    /\ event_id_counter = 1
    /\ start_date = today - DaysBack
    /\ end_date = today + DaysFwd
    /\ artist_calendar = SeededStart(rng).artist_calendar
    /\ tour_idx = 1
    /\ tour_event_count = Null
    /\ current_date = Null
    /\ user_rating_counts = [u \in {users[i].user_id : i \in DOMAIN users} |-> 0]
    /\ rating_id_counter = Null
    /\ completed_events = <<>>
    /\ rating_event_idx = Null
    /\ num_ratings = Null
    /\ base_score = Null
    /\ ratings_made = Null
    /\ duplicates_to_add = <<>>
    /\ dup_idx = Null
    /\ attacked_events = <<>>
    /\ attack_idx = Null
    /\ bot_ratings_added = Null
    /\ rating_id_start = Null
    /\ attack_hour = Null
    /\ num_bot_ratings = Null
    /\ bot_i = Null
    /\ SalesNotStarted
    /\ cities = CityList
    /\ OthersNotStarted

OpenersSpec == InitOpeners /\ [][NextSeeded]_vars

(***************************************************************************)
(* generate_ticket_sales                                                   *)
(***************************************************************************)
\* if e['estimated_attendance']: None and 0 are both false.
HasAttendance(e) ==
    e.estimated_attendance # Null /\ e.estimated_attendance # 0

\* Mutant of NumSales: one transaction for every two tickets.
NumSales_Halved(estimated_attendance) == estimated_attendance \div 2

\* int(event['estimated_attendance'] / 2.5)
NumSales(estimated_attendance) == (2 * estimated_attendance) \div 5

\* The branch of the sale timing the two random.random() draws select, as
\* percentages u1 and u2; the second is only compared when the first fails.
TimingBranch(u1, u2) ==
    IF u1 < 40 THEN "first_week"
    ELSE IF u2 < 30 THEN "last_week"
    ELSE "spread"

\* Mutant of DaysAfterOnsale: the last-week sales count their days from the
\* show forwards.
DaysAfterOnsale_PastShow(branch, window, r) ==
    CASE branch = "first_week" -> RandInt(r, 0, 7)
      [] branch = "last_week" -> window + RandInt(r, 0, 7)
      [] OTHER -> RandInt(r, 8, Max(8, window - 8))

\* days_after_onsale of the branch, window being (event_date - on_sale).days
DaysAfterOnsale(branch, window, r) ==
    CASE branch = "first_week" -> RandInt(r, 0, 7)
      [] branch = "last_week" -> window - RandInt(r, 0, 7)
      [] OTHER -> RandInt(r, 8, Max(8, window - 8))

\* random.choices([1, 2, 3, 4, 5, 6], weights=[0.2, 0.4, 0.15, 0.15, 0.05,
\* 0.05])[0] for the percentage u
Quantity(u) ==
    IF u < 20 THEN 1 ELSE IF u < 60 THEN 2 ELSE IF u < 75 THEN 3
    ELSE IF u < 90 THEN 4 ELSE IF u < 95 THEN 5 ELSE 6

\* The number of draws one sale takes from the generator in state r: the
\* second timing draw and the vip draw are taken only when reached.
SaleDraws(event, r) ==
    LET first == Uniform(Draw(r, 1)) < 40
        timing == IF first THEN 2 ELSE 3
    IN timing + (IF event.vip_ticket_price # Null THEN 1 ELSE 0) + 1

\* The row generate_ticket_sales builds for event with the generator in
\* state r.  unit_price, fees and total_amount are not modelled.
SaleRow(sale_id, event, r) ==
    LET u1 == Uniform(Draw(r, 1))
        first == u1 < 40
        u2 == IF first THEN 0 ELSE Uniform(Draw(r, 2))
        branch == TimingBranch(u1, u2)
        k == IF first THEN 2 ELSE 3
        window == event.event_date - event.on_sale_date
        days_after_onsale == DaysAfterOnsale(branch, window, Draw(r, k))
        sale_date == event.on_sale_date + Max(0, days_after_onsale)
        has_vip == event.vip_ticket_price # Null
        q == IF has_vip THEN k + 2 ELSE k + 1
    IN [sale_id |-> sale_id,
        event_id |-> event.event_id,
        sale_date |-> sale_date,
        days_before_event |-> Max(0, event.event_date - sale_date),
        quantity_sold |-> Quantity(Uniform(Draw(r, q))),
        ticket_type |-> IF has_vip /\ Uniform(Draw(r, k + 1)) < 15
                        THEN "vip" ELSE "general"]

\* generate_ticket_sales up to its loop over the events with an attendance.
SalesBegin ==
    /\ pc = "artist_ratings_done"
    /\ sale_id_counter' = 1
    /\ sales_events' = SelectSeq(events, HasAttendance)
    /\ sales_event_idx' = 1
    /\ pc' = "sales_for"
    /\ UNCHANGED <<ticket_sales, num_sales, sales_made>>
    /\ UNCHANGED <<generatedVars, event_ratings, ratingVars>>
    /\ UNCHANGED otherTables

\* for i, event in enumerate(completed_events): the next event, up to its
\* inner loop.
SalesEvent ==
    /\ pc = "sales_for"
    /\ sales_event_idx <= Len(sales_events)
    /\ num_sales' = NumSales(sales_events[sales_event_idx].estimated_attendance)
    /\ sales_made' = 0
    /\ pc' = "sales_row"
    /\ UNCHANGED <<ticket_sales, sale_id_counter, sales_events,
                   sales_event_idx>>
    /\ UNCHANGED <<generatedVars, event_ratings, ratingVars>>
    /\ UNCHANGED otherTables

\* for _ in range(num_sales): one sale.
SalesRow ==
    /\ pc = "sales_row"
    /\ sales_made < num_sales
    /\ LET event == sales_events[sales_event_idx]
       IN /\ ticket_sales' =
                Append(ticket_sales, SaleRow(sale_id_counter, event, rng))
          /\ rng' = Draw(rng, SaleDraws(event, rng))
    /\ sale_id_counter' = sale_id_counter + 1
    /\ sales_made' = sales_made + 1
    /\ UNCHANGED <<pc, sales_events, sales_event_idx, num_sales>>
    /\ UNCHANGED <<generatedVars, event_ratings>>
    /\ UNCHANGED <<user_rating_counts, rating_id_counter, completed_events,
                   rating_event_idx, num_ratings, base_score, ratings_made,
                   duplicates_to_add, dup_idx, attacked_events, attack_idx,
                   bot_ratings_added, rating_id_start, attack_hour,
                   num_bot_ratings, bot_i>>
    /\ UNCHANGED otherTables

\* The inner loop is exhausted: on to the next event.
SalesEventEnd ==
    /\ pc = "sales_row"
    /\ sales_made = num_sales
    /\ sales_event_idx' = sales_event_idx + 1
    /\ pc' = "sales_for"
    /\ UNCHANGED <<ticket_sales, sale_id_counter, sales_events, num_sales,
                   sales_made>>
    /\ UNCHANGED <<generatedVars, event_ratings, ratingVars>>
    /\ UNCHANGED otherTables

\* The loop over the events is exhausted: generate_ticket_sales returns.
SalesEnd ==
    /\ pc = "sales_for"
    /\ sales_event_idx > Len(sales_events)
    /\ pc' = "sales_done"
    /\ UNCHANGED salesVars
    /\ UNCHANGED otherTables
    /\ UNCHANGED <<generatedVars, event_ratings, ratingVars>>

(***************************************************************************)
(* generate_cities, generate_venue_reviews, generate_artist_ratings,       *)
(* generate_user_follows, save_all_to_csv.  Each runs from its call to its *)
(* return in one step; of a row only the id and the references to other    *)
(* tables are kept, and one draw is taken for a row.                       *)
(***************************************************************************)
\* generate_cities()
GenerateCities ==
    /\ pc = "generate_cities"
    /\ cities' = CityList
    /\ pc' = "generate_users"
    /\ UNCHANGED <<generatedVars, event_ratings, ratingVars, salesVars>>
    /\ UNCHANGED <<venue_reviews, artist_ratings, user_follows, csv_files,
                   errors, validation>>

\* num_reviews of a venue: randint(50, 200), randint(20, 100) or
\* randint(5, 50) by venue type.
NumReviews(venue_type, r) ==
    IF venue_type \in {"arena", "stadium"} THEN RandInt(r, 50, 200)
    ELSE IF venue_type \in {"theater", "amphitheater"} THEN RandInt(r, 20, 100)
    ELSE RandInt(r, 5, 50)

\* The states of the generator after each of n draws from state r:
\* <<Draw(r, 1), ..., Draw(r, n)>>, computed by halves.
RECURSIVE StreamStates(_, _)
StreamStates(r, n) ==
    IF n <= 0 THEN <<>>
    ELSE IF n = 1 THEN <<NextRng(r)>>
    ELSE LET first == StreamStates(r, n \div 2)
         IN first \o StreamStates(first[Len(first)], n - (n \div 2))

\* Draw(r, k) for the long loops.
DrawFar(r, k) == IF k = 0 THEN r ELSE StreamStates(r, k)[k]

\* n rows that refer to `parent` under the column `key` and to a user drawn
\* with random.choice(self.users), the ids counted from next_id, the
\* generator in state r before the first.
UserRows(id_key, key, parent, n, next_id, r) ==
    LET states == StreamStates(r, n)
    IN [k \in 1..n |->
            (id_key :> next_id + k - 1) @@ (key :> parent)
                @@ ("user_id" :> Pick(users, states[k]).user_id)]

\* The loop of generate_venue_reviews over the venues vs: the rows it
\* appends and the state it leaves the generator in.
RECURSIVE VenueReviewLoop(_, _, _)
VenueReviewLoop(vs, next_id, r) ==
    IF vs = <<>> THEN [rows |-> <<>>, rng |-> r]
    ELSE LET venue == Head(vs)
             n == NumReviews(venue.venue_type, NextRng(r))
             rest == VenueReviewLoop(Tail(vs), next_id + n,
                                     DrawFar(r, n + 1))
         IN [rows |-> UserRows("review_id", "venue_id", venue.venue_id, n,
                               next_id, NextRng(r)) \o rest.rows,
             rng |-> rest.rng]

\* generate_venue_reviews()
GenerateVenueReviews ==
    /\ pc = "ratings_done"
    /\ venue_reviews' = venue_reviews \o VenueReviewLoop(venues, 1, rng).rows
    /\ rng' = VenueReviewLoop(venues, 1, rng).rng
    /\ pc' = "venue_reviews_done"
    /\ UNCHANGED <<generatedVars, event_ratings, salesVars>>
    /\ UNCHANGED <<user_rating_counts, rating_id_counter, completed_events,
                   rating_event_idx, num_ratings, base_score, ratings_made,
                   duplicates_to_add, dup_idx, attacked_events, attack_idx,
                   bot_ratings_added, rating_id_start, attack_hour,
                   num_bot_ratings, bot_i>>
    /\ UNCHANGED <<cities, artist_ratings, user_follows, csv_files, errors,
                   validation>>

\* num_ratings of an artist: randint(500, 2000), randint(100, 500),
\* randint(50, 200) or randint(5, 50) by tier.
NumArtistRatings(tier, r) ==
    IF tier = "megastar" THEN RandInt(r, 500, 2000)
    ELSE IF tier = "popular" THEN RandInt(r, 100, 500)
    ELSE IF tier = "rising" THEN RandInt(r, 50, 200)
    ELSE RandInt(r, 5, 50)

\* The loop of generate_artist_ratings over the artists as.
RECURSIVE ArtistRatingLoop(_, _, _)
ArtistRatingLoop(as, next_id, r) ==
    IF as = <<>> THEN [rows |-> <<>>, rng |-> r]
    ELSE LET artist == Head(as)
             n == NumArtistRatings(artist.popularity_tier, NextRng(r))
             rest == ArtistRatingLoop(Tail(as), next_id + n,
                                      DrawFar(r, n + 1))
         IN [rows |-> UserRows("artist_rating_id", "artist_id",
                               artist.artist_id, n, next_id, NextRng(r))
                        \o rest.rows,
             rng |-> rest.rng]

\* generate_artist_ratings()
GenerateArtistRatings ==
    /\ pc = "venue_reviews_done"
    /\ artist_ratings' =
            artist_ratings \o ArtistRatingLoop(artists, 1, rng).rows
    /\ rng' = ArtistRatingLoop(artists, 1, rng).rng
    /\ pc' = "artist_ratings_done"
    /\ UNCHANGED <<generatedVars, event_ratings, salesVars>>
    /\ UNCHANGED <<user_rating_counts, rating_id_counter, completed_events,
                   rating_event_idx, num_ratings, base_score, ratings_made,
                   duplicates_to_add, dup_idx, attacked_events, attack_idx,
                   bot_ratings_added, rating_id_start, attack_hour,
                   num_bot_ratings, bot_i>>
    /\ UNCHANGED <<cities, venue_reviews, user_follows, csv_files, errors,
                   validation>>

\* num_follows of a user: randint(20, 100), randint(5, 20) or
\* randint(1, 5) by segment.
NumFollows(user_segment, r) ==
    IF user_segment = "power_user" THEN RandInt(r, 20, 100)
    ELSE IF user_segment = "regular" THEN RandInt(r, 5, 20)
    ELSE RandInt(r, 1, 5)

\* The loop of generate_user_follows over the users us.  A user follows
\* num_follows distinct artists, all of them when there are fewer: the
\* artists of the preferred genres and the others are both sampled from
\* self.artists, and the genres are not modelled.
RECURSIVE UserFollowLoop(_, _, _)
UserFollowLoop(us, next_id, r) ==
    IF us = <<>> THEN [rows |-> <<>>, rng |-> r]
    ELSE LET user == Head(us)
             n == Min(NumFollows(user.user_segment, NextRng(r)),
                      Len(artists))
             artists_to_follow == Sample(artists, n, NextRng(r))
             rest == UserFollowLoop(Tail(us), next_id + n,
                                    DrawFar(r, n + 1))
         IN [rows |-> [k \in 1..n |->
                        [follow_id |-> next_id + k - 1,
                         user_id |-> user.user_id,
                         artist_id |-> artists_to_follow[k].artist_id]]
                        \o rest.rows,
             rng |-> rest.rng]

\* generate_user_follows()
GenerateUserFollows ==
    /\ pc = "sales_done"
    /\ user_follows' = user_follows \o UserFollowLoop(users, 1, rng).rows
    /\ rng' = UserFollowLoop(users, 1, rng).rng
    /\ pc' = "user_follows_done"
    /\ UNCHANGED <<generatedVars, event_ratings, salesVars>>
    /\ UNCHANGED <<user_rating_counts, rating_id_counter, completed_events,
                   rating_event_idx, num_ratings, base_score, ratings_made,
                   duplicates_to_add, dup_idx, attacked_events, attack_idx,
                   bot_ratings_added, rating_id_start, attack_hour,
                   num_bot_ratings, bot_i>>
    /\ UNCHANGED <<cities, venue_reviews, artist_ratings, csv_files, errors,
                   validation>>

\* The datasets of save_all_to_csv by name.
Datasets ==
    [cities |-> cities, users |-> users, artists |-> artists,
     venues |-> venues, tours |-> tours, events |-> events,
     event_ratings |-> event_ratings, venue_reviews |-> venue_reviews,
     artist_ratings |-> artist_ratings, ticket_sales |-> ticket_sales,
     user_artist_follows |-> user_follows]

\* save_all_to_csv(): a file for every dataset that is not empty.
SaveAllToCsv ==
    /\ pc = "user_follows_done"
    /\ csv_files' = csv_files
            \cup {name \in DOMAIN Datasets : Datasets[name] # <<>>}
    /\ pc' = "saved"
    /\ UNCHANGED <<generatedVars, event_ratings, ratingVars, salesVars>>
    /\ UNCHANGED <<cities, venue_reviews, artist_ratings, user_follows, errors,
                   validation>>

(***************************************************************************)
(* generate_all_data from generate_event_ratings to the return of         *)
(* generate_ticket_sales, on a run whose venues are small enough for every *)
(* sale to be a state.  With fewer than 100 events no event is attacked by *)
(* bots.                                                                   *)
(***************************************************************************)
\* The venues of the sales runs: the smallest bar and the smallest club
\* generate_venues makes.
SalesVenues == <<[venue_id |-> 1, venue_type |-> "bar", capacity |-> 50],
                 [venue_id |-> 2, venue_type |-> "club", capacity |-> 100]>>

\* (events, completed events, users) of the sales runs.
SalesRuns == {<<4, 2, 10>>, <<3, 0, 10>>}

\* States of the generator at the ticketing draws of _create_event: they
\* give the shortest on-sale window (23 days) with and without a vip price,
\* and the longest one of the lower tiers (89 days) with and without.
TicketDraws == {657, 1334, 182, 981}

\* The events of a run, their ticketing columns drawn in state t.
SalesRunEvents(n, completed, t) ==
    [i \in 1..n |->
        LET event == RunEvent(i, completed)
        IN Ticketing(ArtistById(event.artist_id), VenueById(event.venue_id),
                     event.event_date, t) @@ event]

InitSales ==
    /\ pc = "events_done"
    /\ today \in NowChoices
    /\ artists = RatingArtists
    /\ venues = SalesVenues
    /\ tours = <<>>
    /\ \E run \in SalesRuns, t \in TicketDraws :
        /\ users = UserList(run[3])
        /\ events = SalesRunEvents(run[1], run[2], t)
    /\ args = [n_artists |-> Len(artists), n_venues |-> Len(venues),
               n_tours |-> 0, n_events |-> Len(events)]
    /\ event_ratings = <<>>
    /\ venue_event_counts =
            [v \in {venues[i].venue_id : i \in DOMAIN venues} |->
                Cardinality({i \in DOMAIN events : events[i].venue_id = v})]
    /\ event_id_counter = Len(events) + 1
    /\ start_date = today - 730
    /\ end_date = today + 365
    /\ artist_calendar =
            [a \in ArtistIds |->
                {events[i].event_date : i \in {j \in DOMAIN events :
                                                events[j].artist_id = a}}]
    /\ tour_idx = 1
    /\ tour_event_count = Null
    /\ current_date = Null
    /\ rng \in Seeds
    /\ user_rating_counts = [u \in {users[i].user_id : i \in DOMAIN users} |-> 0]
    /\ rating_id_counter = Null
    /\ completed_events = <<>>
    /\ rating_event_idx = Null
    /\ num_ratings = Null
    /\ base_score = Null
    /\ ratings_made = Null
    /\ duplicates_to_add = <<>>
    /\ dup_idx = Null
    /\ attacked_events = <<>>
    /\ attack_idx = Null
    /\ bot_ratings_added = Null
    /\ rating_id_start = Null
    /\ attack_hour = Null
    /\ num_bot_ratings = Null
    /\ bot_i = Null
    /\ SalesNotStarted
    /\ cities = CityList
    /\ OthersNotStarted

NextSales ==
    \/ RatingsBegin
    \/ RatingsEvent
    \/ RatingsRow
    \/ RatingsEventEnd
    \/ DuplicatesBegin
    \/ DuplicateAppend
    \/ DuplicatesEnd
    \/ BotAttacksBegin
    \/ BotAttacksEnd
    \/ GenerateVenueReviews
    \/ GenerateArtistRatings
    \/ SalesBegin
    \/ SalesEvent
    \/ SalesRow
    \/ SalesEventEnd
    \/ SalesEnd

SalesSpec == InitSales /\ [][NextSales]_vars

(***************************************************************************)
(* generate_all_data from generate_cities to the return of                *)
(* save_all_to_csv.  With fewer than 100 events                            *)
(* int(len(self.events) * 0.01) is 0: _add_bot_attacks samples no event,   *)
(* and the steps of an attack are not part of these runs.                  *)
(***************************************************************************)
\* Mutant of GenerateUsers: generate_all_data calls it before
\* generate_cities.
GenerateUsers_BeforeCities ==
    /\ pc = "generate_cities"
    /\ users = <<>>
    /\ users' = UserList(args.n_users)
    /\ user_rating_counts' =
            [u \in {users'[i].user_id : i \in DOMAIN users'} |-> 0]
    /\ UNCHANGED <<pc, today, args, artists, venues, tours, events,
                   event_ratings, venue_event_counts, event_id_counter,
                   start_date, end_date, artist_calendar, tour_idx,
                   tour_event_count, current_date>>
    /\ UNCHANGED <<rng, rating_id_counter, completed_events, rating_event_idx,
                   num_ratings, base_score, ratings_made, duplicates_to_add,
                   dup_idx, attacked_events, attack_idx, bot_ratings_added,
                   rating_id_start, attack_hour, num_bot_ratings, bot_i>>
    /\ UNCHANGED salesVars
    /\ UNCHANGED otherTables

\* generate_users(n)
GenerateUsers ==
    /\ pc = "generate_users"
    /\ users' = UserList(args.n_users)
    /\ user_rating_counts' =
            [u \in {users'[i].user_id : i \in DOMAIN users'} |-> 0]
    /\ pc' = "generate_artists"
    /\ UNCHANGED <<today, args, artists, venues, tours, events, event_ratings,
                   venue_event_counts, event_id_counter, start_date, end_date,
                   artist_calendar, tour_idx, tour_event_count, current_date>>
    /\ UNCHANGED <<rng, rating_id_counter, completed_events, rating_event_idx,
                   num_ratings, base_score, ratings_made, duplicates_to_add,
                   dup_idx, attacked_events, attack_idx, bot_ratings_added,
                   rating_id_start, attack_hour, num_bot_ratings, bot_i>>
    /\ UNCHANGED salesVars
    /\ UNCHANGED otherTables

\* The n= arguments of the pipeline runs.
PipelineArgs ==
    {[n_users |-> 10, n_artists |-> 2, n_venues |-> 1, n_tours |-> 1,
      n_events |-> 2]}

InitPipeline ==
    /\ pc = "generate_cities"
    /\ today \in NowChoices
    /\ args \in PipelineArgs
    /\ artists = <<>>
    /\ venues = <<>>
    /\ users = <<>>
    /\ tours = <<>>
    /\ events = <<>>
    /\ event_ratings = <<>>
    /\ venue_event_counts = <<>>
    /\ event_id_counter = Null
    /\ start_date = Null
    /\ end_date = Null
    /\ artist_calendar = <<>>
    /\ tour_idx = Null
    /\ tour_event_count = Null
    /\ current_date = Null
    /\ rng = 0
    /\ user_rating_counts = <<>>
    /\ rating_id_counter = Null
    /\ completed_events = <<>>
    /\ rating_event_idx = Null
    /\ num_ratings = Null
    /\ base_score = Null
    /\ ratings_made = Null
    /\ duplicates_to_add = <<>>
    /\ dup_idx = Null
    /\ attacked_events = <<>>
    /\ attack_idx = Null
    /\ bot_ratings_added = Null
    /\ rating_id_start = Null
    /\ attack_hour = Null
    /\ num_bot_ratings = Null
    /\ bot_i = Null
    /\ SalesNotStarted
    /\ cities = <<>>
    /\ OthersNotStarted

NextPipeline ==
    \/ GenerateCities
    \/ GenerateUsers
    \/ GenerateArtists
    \/ GenerateVenues
    \/ GenerateTours
    \/ EventsBegin
    \/ TourBegin
    \/ TourShow
    \/ TourExit
    \/ ToursEnd
    \/ FillAccept
    \/ FillReject
    \/ FillExit
    \/ RatingsBegin
    \/ RatingsEvent
    \/ RatingsRow
    \/ RatingsEventEnd
    \/ DuplicatesBegin
    \/ DuplicateAppend
    \/ DuplicatesEnd
    \/ BotAttacksBegin
    \/ BotAttacksEnd
    \/ GenerateVenueReviews
    \/ GenerateArtistRatings
    \/ SalesBegin
    \/ SalesEvent
    \/ SalesRow
    \/ SalesEventEnd
    \/ SalesEnd
    \/ GenerateUserFollows
    \/ SaveAllToCsv

PipelineSpec == InitPipeline /\ [][NextPipeline]_vars

(***************************************************************************)
(* Claims                                                                  *)
(***************************************************************************)
\* (artist, date) pairs the non-tour sampler can draw that are not booked.
FreePairs ==
    {<<a, d>> \in ArtistIds \X GenerateEventDate(start_date, end_date) :
        ~IsBooked(artist_calendar, a, d)}

\* Events generate_events still has to append.
Remaining == args.n_events - event_id_counter + 1

TourEvents(tour_id) == SelectSeq(events, LAMBDA e : e.tour_id = tour_id)

\* C1: no two events of the events list have the same (artist_id,
\* event_date) pair, in every state of generate_events and after it.
C1_NoDoubleBooking ==
    \A i, j \in DOMAIN events :
        (i # j /\ events[i].artist_id = events[j].artist_id)
            => events[i].event_date # events[j].event_date

\* generate_events has returned with a tour show and a non-tour event of
\* the same artist.
C1_Witness ==
    /\ pc = "events_done"
    /\ \E i, j \in DOMAIN events :
        /\ events[i].artist_id = events[j].artist_id
        /\ events[i].tour_id # Null
        /\ events[j].tour_id = Null
        /\ events[j].event_date \in events[i].event_date - 1 .. events[i].event_date + 1

\* C2: when generate_events(n) returns, events holds exactly n records with
\* event ids 1..n in append order, and every tour event precedes every
\* non-tour event.
C2_ExactlyNInOrder ==
    pc = "events_done" =>
        /\ Len(events) = args.n_events
        /\ \A i \in DOMAIN events : events[i].event_id = i
        /\ \A i, j \in DOMAIN events :
            (events[i].tour_id # Null /\ events[j].tour_id = Null) => i < j

C2_Witness ==
    /\ pc = "events_done"
    /\ Len(events) = MaxEvents
    /\ events[1].tour_id # Null
    /\ events[Len(events)].tour_id = Null

\* C3 as claimed: every event of a tour is dated within the tour:
\* tour.start_date <= event_date <= tour.end_date.
C3_TourEventsWithinTour ==
    \A i \in DOMAIN events : \A t \in DOMAIN tours :
        events[i].tour_id = tours[t].tour_id =>
            /\ tours[t].start_date <= events[i].event_date
            /\ events[i].event_date <= tours[t].end_date

\* C4: a tour never has more events than number_of_shows, all of them of
\* the tour's artist, the first on the tour's start_date and each later one
\* 2, 3 or 4 days after the one before.
C4_TourSchedule ==
    \A t \in DOMAIN tours :
        LET shows == TourEvents(tours[t].tour_id)
        IN /\ Len(shows) <= tours[t].number_of_shows
           /\ \A k \in DOMAIN shows : shows[k].artist_id = tours[t].artist_id
           /\ Len(shows) > 0 => shows[1].event_date = tours[t].start_date
           /\ \A k \in 1..(Len(shows) - 1) :
                shows[k + 1].event_date - shows[k].event_date \in 2..4

C4_Witness ==
    /\ pc = "events_done"
    /\ \E t \in DOMAIN tours :
        /\ Len(TourEvents(tours[t].tour_id)) = MaxShows
        /\ tours[t].number_of_shows = MaxShows

\* C5 as amended: an iteration of the non-tour loop that appends nothing
\* leaves the counter, the calendar and the venue counts as they were, and
\* the loop ends once entered with at least as many unbooked pairs as
\* events still to append.
C5_FillLoop ==
    /\ [][(pc = "fill_while" /\ pc' = "fill_while" /\ events' = events)
            => /\ event_id_counter' = event_id_counter
               /\ artist_calendar' = artist_calendar
               /\ venue_event_counts' = venue_event_counts]_vars
    /\ (pc = "fill_while" /\ Cardinality(FreePairs) >= Remaining)
            ~> (pc = "events_done")

\* The loop is running with booked pairs to reject and enough free ones.
C5_Witness ==
    /\ pc = "fill_while"
    /\ Remaining >= 1
    /\ Cardinality(FreePairs) >= Remaining
    /\ \E a \in ArtistIds : \E d \in GenerateEventDate(start_date, end_date) :
            IsBooked(artist_calendar, a, d)

\* C5 as claimed: the loop ends once entered with at least one unbooked
\* pair.
C5_Original ==
    /\ [][(pc = "fill_while" /\ pc' = "fill_while" /\ events' = events)
            => /\ event_id_counter' = event_id_counter
               /\ artist_calendar' = artist_calendar
               /\ venue_event_counts' = venue_event_counts]_vars
    /\ (pc = "fill_while" /\ Cardinality(FreePairs) >= 1)
            ~> (pc = "events_done")

\* C6: estimated_attendance is set exactly for the completed events and is
\* at most the capacity of the event's venue.
C6_AttendanceWithinCapacity ==
    \A i \in DOMAIN events :
        /\ (events[i].estimated_attendance # Null)
                <=> (events[i].event_status = "completed")
        /\ events[i].event_status = "completed" =>
                /\ events[i].estimated_attendance >= 0
                /\ events[i].estimated_attendance
                        <= VenueById(events[i].venue_id).capacity

\* A completed Thursday show whose boosted fill was capped: a full house.
C6_Witness ==
    \E i \in DOMAIN events :
        /\ events[i].event_status = "completed"
        /\ Weekday(events[i].event_date) = 3
        /\ events[i].estimated_attendance = VenueById(events[i].venue_id).capacity

\* C7: an event dated today or later is scheduled, an earlier one is
\* completed or cancelled, and a cancellation reason (one of the five) is
\* set exactly for the cancelled events.
C7_StatusFromDate ==
    \A i \in DOMAIN events :
        /\ events[i].event_date >= today => events[i].event_status = "scheduled"
        /\ events[i].event_date < today =>
                events[i].event_status \in {"completed", "cancelled"}
        /\ (events[i].cancellation_reason # NoReason)
                <=> (events[i].event_status = "cancelled")
        /\ events[i].event_status = "cancelled" =>
                events[i].cancellation_reason \in CancellationReasons

C7_Witness ==
    /\ pc = "events_done"
    /\ \E i, j \in DOMAIN events :
        /\ events[i].event_status = "cancelled"
        /\ events[j].event_status = "scheduled"
        /\ events[j].event_date = today

\* Ratings generate_event_ratings made before it injected duplicates.
OriginalRatings == rating_id_counter - 1

\* C8: every row of event_ratings, original, duplicate or bot, has a
\* rating_score from 1.0 to 5.0 that is a multiple of 0.5.
C8_ScoreRange ==
    \A i \in DOMAIN event_ratings :
        /\ event_ratings[i].rating_score >= 100
        /\ event_ratings[i].rating_score <= 500
        /\ event_ratings[i].rating_score % 50 = 0

\* generate_event_ratings has returned with duplicates and bot ratings, an
\* original rating of 5.0 and one that is not a whole number.
C8_Witness ==
    /\ pc = "ratings_done"
    /\ Len(duplicates_to_add) >= 1
    /\ bot_ratings_added >= MinBotRatings
    /\ \E i, j \in 1..OriginalRatings :
        /\ event_ratings[i].rating_score = 500
        /\ event_ratings[j].rating_score % 100 = 50

\* C9 as claimed: when generate_event_ratings has returned, no two rows of
\* event_ratings have the same rating_id.
C9_UniqueRatingIds ==
    pc = "ratings_done" =>
        \A i, j \in DOMAIN event_ratings :
            i # j => event_ratings[i].rating_id # event_ratings[j].rating_id

\* C10: once _add_duplicate_ratings has returned it has appended exactly
\* floor(0.15 L) rows to the L there were; each is the copy of a sampled
\* row, no row sampled twice, equal to it in every field but rating_id,
\* and its rating_id is none of the L earlier ones and none of another
\* duplicate.
C10_DuplicatesInjected ==
    pc \in {"add_bot_attacks", "bot_for", "bot_row", "ratings_done",
            "ValueError"} =>
        LET L == OriginalRatings
            D == Len(duplicates_to_add)
        IN /\ D = (15 * L) \div 100
           /\ Len(event_ratings) >= L + D
           /\ pc = "add_bot_attacks" => Len(event_ratings) = L + D
           /\ \A k \in 1..D :
                LET source == duplicates_to_add[k].rating_id
                    copy == event_ratings[L + k]
                IN /\ source \in 1..L
                   /\ event_ratings[source] = duplicates_to_add[k]
                   /\ copy = [event_ratings[source] EXCEPT
                                !.rating_id = copy.rating_id]
                   /\ \A i \in 1..L : event_ratings[i].rating_id # copy.rating_id
                   /\ \A m \in 1..D :
                        m # k =>
                            /\ duplicates_to_add[m].rating_id # source
                            /\ event_ratings[L + m].rating_id # copy.rating_id

\* _add_duplicate_ratings has returned after copying three rows.
C10_Witness ==
    /\ pc = "add_bot_attacks"
    /\ Len(duplicates_to_add) >= 3
    /\ Len(event_ratings) = OriginalRatings + Len(duplicates_to_add)

\* Rows of event_ratings that agree with another row in user_id, event_id,
\* rating_score, review_title and review_text.
SharedRatings ==
    {i \in DOMAIN event_ratings :
        \E j \in DOMAIN event_ratings :
            /\ j # i
            /\ event_ratings[j].user_id = event_ratings[i].user_id
            /\ event_ratings[j].event_id = event_ratings[i].event_id
            /\ event_ratings[j].rating_score = event_ratings[i].rating_score
            /\ event_ratings[j].review_title = event_ratings[i].review_title
            /\ event_ratings[j].review_text = event_ratings[i].review_text}

\* C11 as amended: after generation at least 2 * floor(0.15 L) rows agree
\* with another row in (user_id, event_id, rating_score, review_title,
\* review_text), L being the number of original ratings: the duplicates
\* and the rows they copy.
C11_SharedAtLeastTwiceDuplicates ==
    pc = "ratings_done" =>
        Cardinality(SharedRatings) >= 2 * ((15 * OriginalRatings) \div 100)

\* Generation is over with two duplicates or more among the rows.
C11_Witness ==
    /\ pc = "ratings_done"
    /\ OriginalRatings >= 14
    /\ Len(event_ratings) > OriginalRatings + 1
    /\ Cardinality(SharedRatings) >= 4

\* C11 as claimed: after generation the rows that agree with another row
\* are at least 13% and at most 17% of all rows.
C11_Original ==
    pc = "ratings_done" =>
        /\ 100 * Cardinality(SharedRatings) >= 13 * Len(event_ratings)
        /\ 100 * Cardinality(SharedRatings) <= 17 * Len(event_ratings)

\* Rows of event_ratings _add_bot_attacks appended for the event event_id.
BotRatings(event_id) ==
    {i \in DOMAIN event_ratings :
        i >= rating_id_start /\ event_ratings[i].event_id = event_id}

\* C12: every attacked event got at least 20 and at most 50 bot ratings,
\* each with the event's id, a user id from 9000 to 9999, a score of 1.0 or
\* 5.0, no review, verified_attendance False, and dated the day after the
\* event with days_after_event = 1.
C12_BotRatings ==
    pc = "ratings_done" =>
        \A a \in DOMAIN attacked_events :
            LET event == attacked_events[a]
            IN /\ Cardinality(BotRatings(event.event_id)) >= 20
               /\ Cardinality(BotRatings(event.event_id)) <= 50
               /\ \A i \in BotRatings(event.event_id) :
                    /\ event_ratings[i].user_id \in 9000..9999
                    /\ event_ratings[i].rating_score \in {100, 500}
                    /\ event_ratings[i].review_title = NoText
                    /\ event_ratings[i].review_text = NoText
                    /\ event_ratings[i].verified_attendance = FALSE
                    /\ event_ratings[i].rating_date = event.event_date + 1
                    /\ event_ratings[i].days_after_event = 1

\* Two events were attacked, one with 20 and one with 50 bot ratings, some
\* of them with a score of 5.0.
C12_Witness ==
    /\ pc = "ratings_done"
    /\ Len(attacked_events) = 2
    /\ \E a, b \in DOMAIN attacked_events :
        /\ Cardinality(BotRatings(attacked_events[a].event_id)) = 20
        /\ Cardinality(BotRatings(attacked_events[b].event_id)) = 50
    /\ \E i \in DOMAIN event_ratings :
        i >= rating_id_start /\ event_ratings[i].rating_score = 500

\* C13 as claimed: the attacked events are floor(1% of the completed
\* events) many, pairwise distinct and completed.
C13_AttackedShareOfCompleted ==
    pc \in {"bot_for", "bot_row", "ratings_done"} =>
        /\ Len(attacked_events) = Len(CompletedEvents) \div 100
        /\ \A a, b \in DOMAIN attacked_events :
            a # b => attacked_events[a].event_id # attacked_events[b].event_id
        /\ \A a \in DOMAIN attacked_events :
            attacked_events[a].event_status = "completed"

\* C14: every event's artist_id and venue_id are ids of a generated artist
\* and venue, an event with a tour_id belongs to a generated tour of its
\* artist, every rating's event_id is the id of a generated event, and
\* every rating that is not a bot rating has the user_id of a generated
\* user.
C14_ReferentialCompleteness ==
    /\ \A i \in DOMAIN events :
        /\ \E a \in DOMAIN artists : artists[a].artist_id = events[i].artist_id
        /\ \E v \in DOMAIN venues : venues[v].venue_id = events[i].venue_id
        /\ events[i].tour_id # Null =>
            \E t \in DOMAIN tours :
                /\ tours[t].tour_id = events[i].tour_id
                /\ tours[t].artist_id = events[i].artist_id
    /\ \A r \in DOMAIN event_ratings :
        /\ \E i \in DOMAIN events :
                events[i].event_id = event_ratings[r].event_id
        /\ (rating_id_start = Null \/ r < rating_id_start) =>
            \E u \in DOMAIN users :
                users[u].user_id = event_ratings[r].user_id

\* The rating generator has returned; a tour show was rated and a rating
\* duplicated, and the other artist has an event outside the tour.
C14_Witness ==
    /\ pc = "ratings_done"
    /\ Len(duplicates_to_add) >= 1
    /\ \E r \in DOMAIN event_ratings : \E i \in DOMAIN events :
        /\ events[event_ratings[r].event_id].tour_id # Null
        /\ events[i].tour_id = Null
        /\ events[i].artist_id # events[event_ratings[r].event_id].artist_id

\* C15 as claimed: with the 10000 users of generate_all_data no bot rating
\* carries the user_id of a generated user.
C15_BotIdsReserved ==
    (pc = "ratings_done" /\ Len(users) = 10000) =>
        \A r \in DOMAIN event_ratings :
            r >= rating_id_start =>
                \A u \in DOMAIN users :
                    users[u].user_id # event_ratings[r].user_id

\* C16 as claimed: the events table of a run is the one every run with the
\* same seed produces, at whatever wall-clock date it is executed.
C16_SameSeedSameTables ==
    pc = "events_done" =>
        \A now \in ReplayDates :
            SeededEvents(args.seed, args.n_events, now) = events

\* The rows of ticket_sales carrying the event's id.
SalesOf(event_id) ==
    {s \in DOMAIN ticket_sales : ticket_sales[s].event_id = event_id}

\* The event a sale was made for.
SaleEvent(sale) ==
    CHOOSE e \in {events[i] : i \in DOMAIN events} : e.event_id = sale.event_id

\* C17: once generate_ticket_sales has returned, every event has
\* floor(estimated_attendance / 2.5) rows of ticket_sales when its
\* estimated_attendance is known and none otherwise, and the events with
\* sales are exactly the completed events.
C17_SalesPerEvent ==
    pc = "sales_done" =>
        /\ \A i \in DOMAIN events :
            Cardinality(SalesOf(events[i].event_id)) =
                IF events[i].estimated_attendance # Null
                THEN (10 * events[i].estimated_attendance) \div 25
                ELSE 0
        /\ \A i \in DOMAIN events :
            (SalesOf(events[i].event_id) # {})
                <=> (events[i].event_status = "completed")

\* generate_ticket_sales has returned on a run with a cancelled, two
\* completed and a scheduled event: the completed ones, with 22 and 40
\* attendees, have 8 (of 8.8) and 16 sales, the others none.
C17_Witness ==
    /\ pc = "sales_done"
    /\ \E i, j, k, l \in DOMAIN events :
        /\ events[i].event_status = "cancelled"
        /\ SalesOf(events[i].event_id) = {}
        /\ events[j].estimated_attendance = 22
        /\ Cardinality(SalesOf(events[j].event_id)) = 8
        /\ events[k].estimated_attendance = 40
        /\ Cardinality(SalesOf(events[k].event_id)) = 16
        /\ events[l].event_status = "scheduled"
        /\ SalesOf(events[l].event_id) = {}

\* C18: every sale is dated from its event's on_sale_date to its
\* event_date, both included, and its days_before_event is the number of
\* days from sale_date to event_date, which is not negative.
C18_SaleInsideWindow ==
    \A s \in DOMAIN ticket_sales :
        LET sale == ticket_sales[s]
            event == SaleEvent(sale)
        IN /\ event.on_sale_date <= sale.sale_date
           /\ sale.sale_date <= event.event_date
           /\ sale.days_before_event = event.event_date - sale.sale_date
           /\ sale.days_before_event >= 0

\* generate_ticket_sales has returned for an event with the shortest
\* on-sale window, 23 days: it has a sale of the first week made on the
\* on_sale_date, a sale of the last week made on the day of the show, and
\* a sale of the days between.
C18_Witness ==
    /\ pc = "sales_done"
    /\ \E a, b, c \in DOMAIN ticket_sales :
        LET event == SaleEvent(ticket_sales[a])
        IN /\ event.event_date - event.on_sale_date = 23
           /\ ticket_sales[b].event_id = event.event_id
           /\ ticket_sales[c].event_id = event.event_id
           /\ ticket_sales[a].sale_date = event.on_sale_date
           /\ ticket_sales[b].sale_date = event.event_date
           /\ ticket_sales[b].days_before_event = 0
           /\ ticket_sales[c].sale_date >= event.on_sale_date + 8
           /\ ticket_sales[c].days_before_event >= 8

\* The percentages a random.random() draw is compared by.
TimingGrid == 0..99

\* The outcomes of the two timing draws that select the branch.
BranchOutcomes(branch) ==
    {d \in TimingGrid \X TimingGrid : TimingBranch(d[1], d[2]) = branch}

\* C19: of the equally likely outcomes of the draws that select the timing
\* branch of a sale the generator makes, 40% select the first week, 30% the
\* last week and 30% the days between.
C19_TimingSplit ==
    LET outcomes == Cardinality(TimingGrid \X TimingGrid)
    IN ticket_sales # <<>> =>
       /\ 100 * Cardinality(BranchOutcomes("first_week")) = 40 * outcomes
       /\ 100 * Cardinality(BranchOutcomes("last_week")) = 30 * outcomes
       /\ 100 * Cardinality(BranchOutcomes("spread")) = 30 * outcomes

\* The event a rating was given to.
RatedEvent(rating) ==
    CHOOSE e \in {events[i] : i \in DOMAIN events} :
        e.event_id = rating.event_id

\* C20: once the rating generator has returned, every row of
\* event_ratings, original, duplicate or bot, has a rating_date
\* days_after_event days after the event_date of its event, and
\* days_after_event is in -3..-1 or in 1..30, never 0.
C20_RatingDates ==
    pc = "ratings_done" =>
        \A r \in DOMAIN event_ratings :
            LET rating == event_ratings[r]
            IN /\ rating.rating_date =
                    RatedEvent(rating).event_date + rating.days_after_event
               /\ rating.days_after_event \in (-3..-1) \cup (1..30)

\* The rating generator has returned after a bot attack: an original rating
\* is dated before its event, another one more than a week after it, and
\* the table has a duplicate of a rating dated before its event and a bot
\* rating.
C20_Witness ==
    /\ pc = "ratings_done"
    /\ rating_id_start # Null
    /\ \E a, b \in 1..OriginalRatings :
        /\ event_ratings[a].days_after_event < 0
        /\ event_ratings[b].days_after_event >= 8
    /\ \E d \in (OriginalRatings + 1)..(rating_id_start - 1) :
        event_ratings[d].days_after_event < 0
    /\ \E bot \in rating_id_start..Len(event_ratings) :
        event_ratings[bot].days_after_event = 1

\* The ids of the events that have a row in event_ratings.
RatedEventIds ==
    {event_ratings[r].event_id : r \in DOMAIN event_ratings}

\* C21: once the rating generator has returned, the events with a row in
\* event_ratings, original, duplicate or bot, are exactly the completed
\* events: each completed event has a rating, no other event has one.
C21_RatedAreCompleted ==
    pc = "ratings_done" =>
        RatedEventIds = {events[i].event_id :
                            i \in {j \in DOMAIN events :
                                      events[j].event_status = "completed"}}

\* The rating generator has returned after a bot attack on a run with a
\* cancelled and a scheduled event and two completed ones, one of which got
\* the single rating of the floor.
C21_Witness ==
    /\ pc = "ratings_done"
    /\ rating_id_start # Null
    /\ Len(event_ratings) >= rating_id_start
    /\ \E i, j, k, l \in DOMAIN events :
        /\ events[i].event_status = "cancelled"
        /\ events[j].event_status = "scheduled"
        /\ events[k].event_status = "completed"
        /\ events[l].event_status = "completed"
        /\ k # l
        /\ Cardinality({r \in DOMAIN event_ratings :
                event_ratings[r].event_id = events[k].event_id}) = 1

\* C22: an event at an arena, a stadium or an amphitheater lists 1 or 2
\* opening acts, fewer only when fewer artists can open, each a distinct
\* artist of the emerging or local tier; an event at any other venue type
\* has opening_acts null.
C22_OpeningActs ==
    \A i \in DOMAIN events :
        LET acts == events[i].opening_acts
            eligible == {a \in ArtistIds :
                            ArtistById(a).popularity_tier
                                \in {"emerging", "local"}}
        IN IF VenueById(events[i].venue_id).venue_type
                \in {"arena", "stadium", "amphitheater"}
           THEN IF acts = NoActs THEN eligible = {}
                ELSE /\ Len(acts) \in 1..2
                     /\ \A j \in DOMAIN acts : acts[j] \in eligible
                     /\ \A j, k \in DOMAIN acts : j # k => acts[j] # acts[k]
           ELSE acts = NoActs

\* The events list has a club show without opening acts and an arena or
\* amphitheater show with two openers, while the artist list holds a
\* popular artist next to the two who can open.
C22_Witness ==
    /\ \E a \in ArtistIds : ArtistById(a).popularity_tier = "popular"
    /\ \E i, j \in DOMAIN events :
        /\ VenueById(events[i].venue_id).venue_type = "club"
        /\ events[i].opening_acts = NoActs
        /\ VenueById(events[j].venue_id).venue_type # "club"
        /\ events[j].opening_acts # NoActs
        /\ Len(events[j].opening_acts) = 2

\* C23: every tour is the tour of a megastar, popular, rising or established
\* artist, and no event of an emerging or local artist has a tour_id.
C23_ToursOfTouringTiers ==
    /\ \A t \in DOMAIN tours :
        ArtistById(tours[t].artist_id).popularity_tier
            \in {"megastar", "popular", "rising", "established"}
    /\ \A i \in DOMAIN events :
        ArtistById(events[i].artist_id).popularity_tier
            \in {"emerging", "local"} => events[i].tour_id = Null

\* generate_events has returned with a tour of the popular artist that has
\* a show, while the local artist of the list has no tour and an event
\* outside any tour.
C23_Witness ==
    /\ pc = "events_done"
    /\ \E t \in DOMAIN tours, i, j \in DOMAIN events :
        /\ ArtistById(tours[t].artist_id).popularity_tier = "popular"
        /\ events[i].tour_id = tours[t].tour_id
        /\ ArtistById(events[j].artist_id).popularity_tier = "local"
        /\ events[j].tour_id = Null

\* The tables a generator reads are complete: each holds what its own
\* generator leaves when it returns.
CitiesComplete == Len(cities) = NumCities

UsersComplete == Len(users) = args.n_users

ArtistsComplete == Len(artists) = args.n_artists

VenuesComplete == Len(venues) = args.n_venues

ToursComplete ==
    Len(tours) = Min(args.n_tours,
                     Cardinality({a \in ArtistIds :
                        ArtistById(a).popularity_tier
                            \in {"megastar", "popular", "rising",
                                 "established"}}))

EventsComplete ==
    /\ pc \notin {"generate_events", "tour_for", "tour_while", "fill_while"}
    /\ event_id_counter # Null
    /\ event_id_counter > args.n_events

\* C24: a generator writes its table only when the tables it reads are
\* complete, and does not change them: cities before users, artists and
\* venues; artists before tours; artists, venues and tours before events;
\* events and users before event ratings and ticket sales; users and
\* artists before follows; and the export comes after every generator,
\* when no table changes any more.
C24_DependencyOrder ==
    [][/\ (users' # users \/ artists' # artists \/ venues' # venues) =>
            CitiesComplete /\ cities' = cities
       /\ tours' # tours =>
            ArtistsComplete /\ artists' = artists
       /\ events' # events =>
            /\ ArtistsComplete /\ VenuesComplete /\ ToursComplete
            /\ UNCHANGED <<artists, venues, tours>>
       /\ (event_ratings' # event_ratings \/ ticket_sales' # ticket_sales) =>
            /\ EventsComplete /\ UsersComplete
            /\ UNCHANGED <<events, users>>
       /\ user_follows' # user_follows =>
            /\ UsersComplete /\ ArtistsComplete
            /\ UNCHANGED <<users, artists>>
       /\ (csv_files' # csv_files \/ pc = "saved") =>
            /\ pc \in {"user_follows_done", "saved"}
            /\ UNCHANGED <<cities, users, artists, venues, tours, events,
                           event_ratings, venue_reviews, artist_ratings,
                           ticket_sales, user_follows>>]_vars

\* save_all_to_csv has returned with a file for each of the eleven tables:
\* every generator has appended to its table.
C24_Witness ==
    /\ pc = "saved"
    /\ Cardinality(csv_files) = 11
    /\ CitiesComplete /\ UsersComplete /\ ArtistsComplete /\ VenuesComplete
    /\ tours # <<>> /\ ToursComplete
    /\ EventsComplete

(***************************************************************************)
(* validate_data_relationships                                             *)
(***************************************************************************)
\* The messages of one check: one for every row of `rows`, in order, whose
\* column `key` is not in `ids`.  A message is modelled by its check, the
\* id of the row and the value that matches nothing.
Dangling(check, rows, id_key, key, ids) ==
    LET bad == SelectSeq(rows, LAMBDA row : row[key] \notin ids)
    IN [i \in 1..Len(bad) |-> <<check, bad[i][id_key], bad[i][key]>>]

\* Mutant of RatingUserErrors: a rating of a bot account is not reported.
RatingUserErrors_SkipBots(ratings, user_ids) ==
    Dangling("rating_user", ratings, "rating_id", "user_id",
             user_ids \cup BotUserIdLow..BotUserIdHigh)

\* The rating -> user check.
RatingUserErrors(ratings, user_ids) ==
    Dangling("rating_user", ratings, "rating_id", "user_id", user_ids)

\* The list `errors` at the end of the four checks.
RelationshipErrors ==
    LET artist_ids == {artists[i].artist_id : i \in DOMAIN artists}
        venue_ids == {venues[i].venue_id : i \in DOMAIN venues}
        event_ids == {events[i].event_id : i \in DOMAIN events}
        user_ids == {users[i].user_id : i \in DOMAIN users}
    IN Dangling("event_artist", events, "event_id", "artist_id", artist_ids)
       \o Dangling("event_venue", events, "event_id", "venue_id", venue_ids)
       \o Dangling("rating_event", event_ratings, "rating_id", "event_id",
                   event_ids)
       \o RatingUserErrors(event_ratings, user_ids)

\* validate_data_relationships(generator), called by the main program when
\* generate_all_data has returned: it returns len(errors) == 0.
ValidateDataRelationships ==
    /\ pc = "saved"
    /\ errors' = RelationshipErrors
    /\ validation' = <<Len(errors') = 0>>
    /\ pc' = "validated"
    /\ UNCHANGED <<generatedVars, event_ratings, ratingVars, salesVars>>
    /\ UNCHANGED <<cities, venue_reviews, artist_ratings, user_follows,
                   csv_files>>

\* The most rows of a table the validation is tried on.
MaxRows == 1

\* A table of n rows with ids 1..n.
IdRows(id_key, n) == [i \in 1..n |-> (id_key :> i)]

\* The references of the tables of at most MaxRows rows: row i takes its
\* first column from refs1 and its second from refs2.
ChildTables(refs1, refs2) ==
    UNION {[1..n -> refs1 \X refs2] : n \in 0..MaxRows}

\* The table of these references, with the ids 1, 2, ..
ChildRows(id_key, key1, key2, refs) ==
    [i \in DOMAIN refs |->
        (id_key :> i) @@ (key1 :> refs[i][1]) @@ (key2 :> refs[i][2])]

\* validate_data_relationships is called on tables of every kind: the
\* references of events and ratings match a row or not, and a rating can
\* be one of a bot account.
InitValidate ==
    /\ pc = "saved"
    /\ today \in NowChoices
    /\ \E na \in 0..MaxRows, nv \in 0..MaxRows, nu \in 0..MaxRows :
        /\ artists = IdRows("artist_id", na)
        /\ venues = IdRows("venue_id", nv)
        /\ users = IdRows("user_id", nu)
    /\ \E refs \in ChildTables(1..(MaxRows + 1), 1..(MaxRows + 1)) :
        events = ChildRows("event_id", "artist_id", "venue_id", refs)
    /\ \E refs \in ChildTables(1..(MaxRows + 1),
                                1..(MaxRows + 1) \cup {BotUserIdLow}) :
        event_ratings = ChildRows("rating_id", "event_id", "user_id", refs)
    /\ tours = <<>>
    /\ args = [n_artists |-> Len(artists), n_venues |-> Len(venues),
               n_tours |-> 0, n_events |-> Len(events)]
    /\ venue_event_counts =
            [v \in {venues[i].venue_id : i \in DOMAIN venues} |->
                Cardinality({i \in DOMAIN events : events[i].venue_id = v})]
    /\ event_id_counter = Len(events) + 1
    /\ start_date = today - 730
    /\ end_date = today + 365
    /\ artist_calendar = [a \in ArtistIds |-> {}]
    /\ tour_idx = 1
    /\ tour_event_count = Null
    /\ current_date = Null
    /\ RatingsNotStarted
    /\ SalesNotStarted
    /\ cities = CityList
    /\ OthersNotStarted

NextValidate == ValidateDataRelationships

ValidateSpec == InitValidate /\ [][NextValidate]_vars

(***************************************************************************)
(* generate_all_data from the call of generate_event_ratings to the        *)
(* export, on the rating runs: with duplicates, bot attacks, sales and     *)
(* follows in one run.                                                     *)
(***************************************************************************)
\* The rating runs of a hundred events with ten users: one bot attack, or
\* none when no event is completed.
InitTables ==
    /\ InitRatings
    /\ Len(users) = 10
    /\ Len(events) = 100

NextTables ==
    \/ NextRatings
    \/ GenerateVenueReviews
    \/ GenerateArtistRatings
    \/ SalesBegin
    \/ SalesEvent
    \/ SalesRow
    \/ SalesEventEnd
    \/ SalesEnd
    \/ GenerateUserFollows
    \/ SaveAllToCsv
    \/ ValidateDataRelationships

TablesSpec == InitTables /\ [][NextTables]_vars

\* s is kept at the front of t.
IsPrefix(s, t) == Len(s) <= Len(t) /\ SubSeq(t, 1, Len(s)) = s

\* C25: every step leaves the rows already in a table as they are and in
\* place, adding rows only at the end; so do the steps of
\* _add_duplicate_ratings and _add_bot_attacks on the rating table; and
\* the steps of the rating, ticket sale and follow generators leave users,
\* artists, venues, tours and events unchanged.
C25_AppendOnly ==
    [][/\ IsPrefix(cities, cities') /\ IsPrefix(users, users')
       /\ IsPrefix(artists, artists') /\ IsPrefix(venues, venues')
       /\ IsPrefix(tours, tours') /\ IsPrefix(events, events')
       /\ IsPrefix(event_ratings, event_ratings')
       /\ IsPrefix(venue_reviews, venue_reviews')
       /\ IsPrefix(artist_ratings, artist_ratings')
       /\ IsPrefix(ticket_sales, ticket_sales')
       /\ IsPrefix(user_follows, user_follows')
       /\ pc \in {"dup_for", "add_bot_attacks", "bot_for", "bot_row"} =>
            IsPrefix(event_ratings, event_ratings')
       /\ (\/ event_ratings' # event_ratings
           \/ ticket_sales' # ticket_sales
           \/ user_follows' # user_follows
           \/ pc \in {"events_done", "ratings_for", "ratings_row", "dup_for",
                      "add_bot_attacks", "bot_for", "bot_row",
                      "artist_ratings_done", "sales_for", "sales_row",
                      "sales_done"}) =>
            UNCHANGED <<users, artists, venues, tours, events>>]_vars

\* The export is done in a run where duplicates and bot ratings were added
\* to the rating table and sales and follows were generated.
C25_Witness ==
    /\ pc = "saved"
    /\ duplicates_to_add # <<>>
    /\ bot_ratings_added # Null /\ bot_ratings_added > 0
    /\ Len(event_ratings) > Len(duplicates_to_add) + bot_ratings_added
    /\ ticket_sales # <<>>
    /\ user_follows # <<>>

\* Every reference the validation looks at matches a row.
AllReferencesMatch ==
    /\ \A i \in DOMAIN events :
        /\ \E j \in DOMAIN artists : artists[j].artist_id = events[i].artist_id
        /\ \E j \in DOMAIN venues : venues[j].venue_id = events[i].venue_id
    /\ \A i \in DOMAIN event_ratings :
        /\ \E j \in DOMAIN events :
                events[j].event_id = event_ratings[i].event_id
        /\ \E j \in DOMAIN users :
                users[j].user_id = event_ratings[i].user_id

\* C26: the call of validate_data_relationships returns True exactly when
\* the artist_id and venue_id of every event and the event_id and user_id
\* of every rating match a row, False otherwise, and leaves every table as
\* it is.
C26_ValidationVerdict ==
    [][pc = "saved" /\ pc' # pc =>
            /\ pc' = "validated"
            /\ validation' = <<AllReferencesMatch>>
            /\ UNCHANGED <<cities, users, artists, venues, tours, events,
                           event_ratings, venue_reviews, artist_ratings,
                           ticket_sales, user_follows>>]_vars

\* The validation has returned False on tables whose only dangling
\* reference is the user_id of a bot rating.
C26_Witness ==
    /\ pc = "validated"
    /\ validation = <<FALSE>>
    /\ Len(errors) = 1
    /\ errors[1][1] = "rating_user"
    /\ errors[1][3] = BotUserIdLow
    /\ events # <<>>
    /\ users # <<>>

\* C27: every event without a tour has its date inside the window of
\* generate_events, from start_date to end_date, the shift to the target
\* weekday included.
C27_NonTourInWindow ==
    \A i \in DOMAIN events :
        events[i].tour_id = Null =>
            /\ start_date <= events[i].event_date
            /\ events[i].event_date <= end_date

\* The tour being walked.
CurrentTour == tours[tour_idx]

\* C28: the loop of every tour ends; the artist of a tour has no booked
\* date when the tour is walked; every iteration appends one event and
\* counts it in the show count and the event counter; the first iteration
\* of a tour keeps the date, which is the tour start date, and every later
\* one advances it by at least 2 days.
C28_TourLoop ==
    /\ [][/\ (pc = "tour_for" /\ pc' = "tour_while") =>
                artist_calendar[CurrentTour.artist_id] = {}
          /\ (pc = "tour_while" /\ pc' = "tour_while") =>
                /\ Len(events') = Len(events) + 1
                /\ events'[Len(events')].event_date = current_date'
                /\ tour_event_count' = tour_event_count + 1
                /\ event_id_counter' = event_id_counter + 1
                /\ tour_event_count = 0 =>
                        current_date' = CurrentTour.start_date
                /\ tour_event_count > 0 =>
                        current_date' >= current_date + 2]_vars
    /\ (pc = "tour_while") ~> (pc = "tour_for")

\* The loop of a tour has ended after a second show, dated at least 2 days
\* after the tour start.
C28_Witness ==
    /\ pc = "tour_for"
    /\ tour_idx = 2
    /\ tour_event_count = 2
    /\ current_date >= tours[1].start_date + 2
    /\ Len(events) = 2

\* C28 as claimed: every iteration appends one event and either advances
\* the date by at least 2 days or is the last of its loop.
C28_Original ==
    [][(pc = "tour_while" /\ pc' = "tour_while") =>
            /\ Len(events') = Len(events) + 1
            /\ \/ current_date' >= current_date + 2
               \/ ~(/\ tour_event_count' < CurrentTour.number_of_shows
                    /\ current_date' <= CurrentTour.end_date
                    /\ event_id_counter' <= args.n_events)]_vars

\* The positions of the completed events.
CompletedPositions ==
    {i \in DOMAIN events : events[i].event_status = "completed"}

\* C29: _add_bot_attacks ends in an error exactly when the completed
\* events are fewer than 1% of all events, rounded down, and then
\* event_ratings holds the rows of the rating loop and the duplicates
\* only; otherwise that many completed events are attacked and the
\* generator returns.
C29_BotAttackSample ==
    LET k == Len(events) \div 100
    IN /\ pc = "ValueError" =>
            /\ k > Cardinality(CompletedPositions)
            /\ attacked_events = <<>>
            /\ Len(event_ratings) =
                    (rating_id_counter - 1) + Len(duplicates_to_add)
            /\ \A i \in DOMAIN event_ratings :
                    event_ratings[i].user_id < BotUserIdLow
       /\ pc \in {"bot_for", "bot_row", "ratings_done"} =>
            /\ k <= Cardinality(CompletedPositions)
            /\ Len(attacked_events) = k
            /\ \A a \in DOMAIN attacked_events :
                    attacked_events[a].event_status = "completed"

\* The sample of 2 from one completed event has failed, after the rating
\* loop and the duplicates have filled event_ratings.
C29_Witness ==
    /\ pc = "ValueError"
    /\ Len(events) = 200
    /\ Cardinality(CompletedPositions) = 1
    /\ duplicates_to_add # <<>>
    /\ Len(event_ratings) > Len(duplicates_to_add)

\* The ids of the generated venues.
VenueIds == {venues[i].venue_id : i \in DOMAIN venues}

\* The events held at venue v.
EventsAt(v) == {i \in DOMAIN events : events[i].venue_id = v}

\* sum(self.venue_event_counts.values()) over the venues in S.
RECURSIVE SumCounts(_)
SumCounts(S) ==
    IF S = {} THEN 0
    ELSE LET v == CHOOSE x \in S : TRUE
         IN venue_event_counts[v] + SumCounts(S \ {v})

\* C30: while generate_events runs, and when it has returned, the counter
\* of every generated venue is the number of events at that venue and the
\* counters sum to the number of events; an iteration that appends nothing
\* leaves the counters unchanged.
C30_VenueEventCounts ==
    /\ [](pc \in {"tour_for", "tour_while", "fill_while", "events_done"} =>
            /\ DOMAIN venue_event_counts = VenueIds
            /\ \A v \in VenueIds :
                    venue_event_counts[v] = Cardinality(EventsAt(v))
            /\ SumCounts(VenueIds) = Len(events))
    /\ [][(pc \in {"tour_while", "fill_while"} /\ events' = events) =>
            venue_event_counts' = venue_event_counts]_vars

\* The non-tour loop is running with both events at one venue, none at the
\* other, and a booked pair for the next draw to hit.
C30_Witness ==
    /\ pc = "fill_while"
    /\ Len(events) = 2
    /\ \E v, w \in VenueIds :
        /\ venue_event_counts[v] = 2
        /\ venue_event_counts[w] = 0
    /\ \E a \in ArtistIds : \E d \in GenerateEventDate(start_date, end_date) :
            IsBooked(artist_calendar, a, d)
====
